---- MODULE Spec2Model ----
(***************************************************************************)
(* Protocol engine of the XIM BLE lighting gateway (ble_xim.py): the       *)
(* per-device connection state machine driven by BGAPI events, the radio   *)
(* controller it talks to, attribute writes, sequence-number issuance and  *)
(* inbound frame decryption.                                               *)
(***************************************************************************)
EXTENDS Integers, Sequences, FiniteSets, TLC

(***************************************************************************)
(* Bounds of the model.                                                    *)
(***************************************************************************)
NumDevices == 2          \* radio addresses that exist
MaxApiCalls == 2         \* Connect / Disconnect calls made by the collaborator
MaxLinkLoss == 1         \* spontaneous link losses the radio reports
MaxConsecutiveLoss == 4  \* link losses in the reconnection scenario
MaxTxCalls == 3          \* TransmitPacket calls made by the collaborator
SeqBits == 16            \* width of the sequence counter (32 in the program)
MaxFrames == 3           \* outbound frames built
MaxRxFrames == 2         \* inbound encrypted frames received
MaxCrashes == 1          \* times the process dies and is started again
MaxCalls == 1            \* calls of the functions of the command interface
MaxXbFrames == 3         \* frames built byte by byte
MaxPayloadLen == 11      \* bytes of payload in such a frame, type and destination included
MaxCommands == 3         \* commands put on the gateway's queue
MaxRestarts == 2         \* restarts of the serial connection
MaxConnects == 4         \* Connect calls in the scenario of failed attempts
MaxSegments == 3         \* group segments whose order is remembered
TickSeconds == 15        \* seconds by which the clock advances in one step

Addr == 1..NumDevices
Handles == 0..(NumDevices - 1)

(***************************************************************************)
(* Program constants.                                                      *)
(***************************************************************************)
None == -1
NoDev == 0

STATE_STANDBY == 0
STATE_CONNECTING == 1
STATE_GET_VERSION == 2
STATE_FINDING_SERVICES == 3
STATE_FINDING_ATTRIBUTES == 4
STATE_ENABLING_NOTIFICATIONS == 5
STATE_LISTENING_DATA == 6
STATE_DISCONNECTING == 7
STATE_ENCRYPTING == 8
States == 0..8

CENTRAL_STATE_STANDBY == 0
CENTRAL_STATE_SCANNING == 1
CENTRAL_STATE_CONNECTING == 2
CENTRAL_STATE_STOPPING == 3

PERIPH_STATE_STANDBY == 0
PERIPH_STATE_ADVERTISING == 1
PERIPH_STATE_STOPPING == 2

SERVICE_ATTRIBUTES_NONE == 0
SERVICE_ATTRIBUTES_FINDING == 1
SERVICE_ATTRIBUTES_FOUND == 2

MAX_UNEXPECTED_DISCONNECTIONS == 3
MAX_FAILED_CONNECTION_ATTEMPTS == 3
MAX_SERIAL_FAILURES == 5
NONCE_LENGTH == 13
XBX_MIC_LENGTH == 4
XBX_SOURCE_ADDR_LENGTH == 2
XBX_SEQUENCE_ID_LENGTH == 4
XBX_RFU_LENGTH == 1
XBX_RFU_VALUE == 0
XB_TYPE_UNENCRYPTED == 5
XB_TYPE_ENCRYPTED_FLAG == 128
bleLocalDeviceId == 32767
STOP_FADING_VALUE == 65535
SENSOR_CONTROL_VALUE == 65532
ENCRYPTION_ENABLED == TRUE

\* BGAPI result codes: 0 is success; the engine singles out 0x0305.
RESULT_OK == 0
RESULT_PAIRING_NOT_SUPPORTED == 773
RESULT_ERROR == 385

\* connection status flags (bit values)
FLAG_CONNECTED == 1
FLAG_ENCRYPTED == 2
FLAG_COMPLETED == 4

Bit(f, b) == ((f \div b) % 2) = 1

\* attribute writes; times are in seconds
MAX_GATT_WRITE_SIZE == 20
MAX_GATT_CHUNK_WRITE_SIZE == 18
MAX_CHUNK_WAIT_TIME == 2
TRANSMIT_TIMEOUT_DEFAULT == 1

\* network configurations: the list index of each slot (the program counts
\* from 0), the sequence counter, the partial network id of a frame header
selectedTxNetworkIndex == 1
selectedRxNetworkIndex == 2
XBX_SEQUENCE_ID_MAX_VALUE == 2 ^ SeqBits
XBX_NETWORK_ID_PARTIAL_ID_MASK == 31
BYTE == 256
NETWORK_KEY_NONE == 0
ENCRYPTED_PACKET_TYPE_XB1 == 1
ENCRYPTED_PACKET_TYPE_XB2 == 2
ENCRYPTED_PACKET_TYPE_XGROUP == 8
ENCRYPTED_PACKET_TYPE_LIGHT_CONTROL == 16

(***************************************************************************)
(* Characteristics and services, abstracted to the ones the connection     *)
(* logic distinguishes.  "ud" is uuid_scan_response_user_data (in the base *)
(* list of every XIM), "s1" a characteristic added for firmware >= 0.055,  *)
(* "gm" one added for firmware >= 0.075, "bls" the bootloader command      *)
(* characteristic and "blsccc" its client configuration descriptor.        *)
(***************************************************************************)
Chars == {"ud", "s1", "gm"}
BaseChars == {"ud"}
Svc == {1, 2}
BlSvc == 0
SvcOf(c) == IF c = "ud" THEN 1 ELSE 2
Versions == {60, 75}

\* group tables and the polling for them
NUM_GROUPS == 16
GROUP_MEMBER_LENGTH == 2
GROUP_MEMBER_UNASSIGNED == 65535
XGROUP_LAST_PACKET_FLAG == 128
XBGROUP_HEADER_LENGTH == 1
XBGROUP_HEADER_OFFSET == 0
XBGROUP_MEMBERS_OFFSET == 1
MAX_GROUP_REQUESTS == 5
GROUP_REQUEST_RETRY_INTERVAL == 30

VARIABLES
  peripheral_list,   \* registry: sequence of radio addresses, in creation order
  dev,               \* [Addr -> device record]
  pending_write,     \* busy flag
  bgCentralState,
  bgPeriphState,
  cacheFile,         \* uuid->handle map file: set of [ver, chars] lines
  stk,               \* host call stack of polling loops
  lastTrans,         \* connectionState assignments made by the last step
  rlink,             \* radio: link per address
  rproc,             \* radio: attribute-client procedure in progress per address
  rxq,               \* packets from the radio not yet parsed by the host
  peer,              \* what each remote device is
  tx,                \* the latest TransmitPacket call: its arguments, what the
                     \* remote device acknowledged and the value returned
  networkConfigs,    \* the network configurations in memory
  netFile,           \* the network configuration file: a sequence of lines
  seq,               \* position in the code that builds an outbound frame, and
                     \* the sequence numbers put into transmitted frames
  rx,                \* the latest inbound encrypted frame and what was done with it
  groupPollingIndex, \* PollForGroupMembership: position in peripheral_list (from 0)
  grp,               \* group segments processed so far and the latest of them
  poll,              \* the latest group-table requests
  mapFile,           \* the uuid->handle map file on disk and its temporary file
  att,               \* connection attempts: failures in a row per device (counted up to
                     \* MAX_FAILED_CONNECTION_ATTEMPTS), the
                     \* attempts Process() gave up and those begun in the last step
  serialFailures,    \* exceptions thrown by check_activity since the last restart
  ser,               \* the serial connection, and what the last step did to it
  gw,                \* the gateway: its command queue and the commands it issued
  xb,                \* the assigned-address frame that is being built, byte by byte
  call,              \* the latest call of a function of the command interface
  nApi, nLoss        \* budgets used

vars == <<peripheral_list, dev, pending_write, bgCentralState, bgPeriphState,
          cacheFile, stk, lastTrans, rlink, rproc, rxq, peer, tx,
          networkConfigs, netFile, seq, rx, groupPollingIndex, grp, poll, att,
          mapFile, serialFailures, ser, gw, xb, call, nApi, nLoss>>

\* the serial connection is open; restarts: how often Process() restarted it.
\* Of the last step: closed, the port was closed; init, SendInitSequence ran
\* to its end; counted, the exceptions check_activity threw in that step.
NoSer == [open |-> TRUE, restarts |-> 0, closed |-> FALSE, init |-> FALSE, counted |-> 0]

\* the gateway after construction: commandQueue is empty.  n counts the
\* commands appended, issued lists those handed to the radio, flying holds
\* those whose radio command is not answered yet, and at is the index Run()
\* has still to remove (0: none).
NoGw == [q |-> <<>>, n |-> 0, issued |-> <<>>, flying |-> {}, at |-> 0]

\* no frame is being built.  pc: "idle", "payload" (the payload is
\* encrypted), "header" (the header is encrypted too); steps lists what was
\* encrypted for the frame, in the order it was done.
NoXb == [pc |-> "idle", n |-> 0, encrypted |-> FALSE, payload |-> <<>>,
         sqn |-> 0, header |-> <<>>, eMsg |-> <<>>, eMic |-> <<>>,
         headerNonce |-> <<>>, encHeader |-> <<>>, steps |-> <<>>, frame |-> <<>>]

\* no function was called.  ids: scannedDeviceId of every device as the list
\* of bytes the code keeps, empty while no logical address was heard
NoCall == [n |-> 0, fn |-> "none", args |-> <<>>, result |-> <<>>,
           ids |-> [a \in Addr |-> <<>>]]

(***************************************************************************)
(* The whole state as one record, so that a handler is a function from     *)
(* state to state and handlers compose the way the calls in the code do.   *)
(***************************************************************************)
World ==
  [peripheral_list |-> peripheral_list, dev |-> dev, pending_write |-> pending_write,
   bgCentralState |-> bgCentralState, bgPeriphState |-> bgPeriphState,
   cacheFile |-> cacheFile, stk |-> stk, lastTrans |-> {},
   rlink |-> rlink, rproc |-> rproc, rxq |-> rxq, tx |-> tx,
   networkConfigs |-> networkConfigs, netFile |-> netFile, seq |-> seq, rx |-> rx,
   groupPollingIndex |-> groupPollingIndex, grp |-> grp, poll |-> poll,
   att |-> [att EXCEPT !.abandoned = {}, !.started = {}], mapFile |-> mapFile,
   serialFailures |-> serialFailures,
   ser |-> [ser EXCEPT !.closed = FALSE, !.init = FALSE, !.counted = 0], gw |-> gw,
   xb |-> xb, call |-> call]

Apply(W) ==
  \E X \in {W} :
    /\ peripheral_list' = X.peripheral_list
    /\ dev' = X.dev
    /\ pending_write' = X.pending_write
    /\ bgCentralState' = X.bgCentralState
    /\ bgPeriphState' = X.bgPeriphState
    /\ cacheFile' = X.cacheFile
    /\ stk' = X.stk
    /\ lastTrans' = X.lastTrans
    /\ rlink' = X.rlink
    /\ rproc' = X.rproc
    /\ rxq' = X.rxq
    /\ tx' = X.tx
    /\ networkConfigs' = X.networkConfigs
    /\ netFile' = X.netFile
    /\ seq' = X.seq
    /\ rx' = X.rx
    /\ groupPollingIndex' = X.groupPollingIndex
    /\ grp' = X.grp
    /\ poll' = X.poll
    /\ att' = X.att
    /\ mapFile' = X.mapFile
    /\ serialFailures' = X.serialFailures
    /\ ser' = X.ser
    /\ gw' = X.gw
    /\ xb' = X.xb
    /\ call' = X.call

Min(S) == CHOOSE x \in S : \A y \in S : x <= y

Abs(x) == IF x < 0 THEN -x ELSE x

\* BleDevice.__init__ / XimBleDevice.InitializeServiceAttributeList
BleDevice ==
  [connectionState |-> STATE_STANDBY, connection_handle |-> None,
   connectionSent |-> FALSE, unexpectedDisconnections |-> 0,
   failedConnectionAttempts |-> 0, encryptionRequired |-> ENCRYPTION_ENABLED,
   bootloaderMode |-> FALSE, swVersion |-> None,
   packetStatus |-> None, bulkPacketTransferred |-> FALSE,
   attributeList |-> BaseChars, handles |-> {},
   serviceList |-> {1},
   attributesDiscovered |-> [s \in Svc |-> SERVICE_ATTRIBUTES_NONE],
   att_handle_end |-> {},
   blHandle |-> FALSE, blCccHandle |-> FALSE,
   blAttributesDiscovered |-> SERVICE_ATTRIBUTES_NONE, blHandleEnd |-> FALSE,
   encryptedAdv |-> FALSE, scannedDeviceId |-> None,
   groups |-> [i \in 1..NUM_GROUPS |-> None], receivedAllGroups |-> FALSE,
   requestGroupAttempts |-> 0,
   \* time.time() - lastGroupRequestTime, kept up to the first value above
   \* GROUP_REQUEST_RETRY_INTERVAL; lastGroupRequestTime starts at 0.0
   sinceGroupRequest |-> GROUP_REQUEST_RETRY_INTERVAL + 1]

\* every assignment to connectionState goes through here and is recorded
SetState(W, a, s) ==
  [W EXCEPT !.dev[a].connectionState = s,
            !.lastTrans = IF W.dev[a].connectionState = s THEN @
                          ELSE @ \cup {<<a, W.dev[a].connectionState, s>>}]

SetBusyFlag(W) == [W EXCEPT !.pending_write = TRUE]

ClearBusy(W) == [W EXCEPT !.pending_write = FALSE]

IsConnected(W, a) ==
  /\ W.dev[a].connectionState = STATE_LISTENING_DATA
  /\ W.dev[a].connection_handle # None

IsDiscovering(W, a) ==
  W.dev[a].connectionState \in {STATE_FINDING_SERVICES, STATE_FINDING_ATTRIBUTES}

IsSystemBusy(W) ==
  W.bgCentralState \notin {CENTRAL_STATE_STANDBY, CENTRAL_STATE_SCANNING}

Registered(W) == {W.peripheral_list[i] : i \in 1..Len(W.peripheral_list)}

GetDeviceWithAddress(W, a) == IF a \in Registered(W) THEN a ELSE NoDev

FirstWhere(W, S) == IF S = {} THEN NoDev ELSE W.peripheral_list[Min(S)]

GetDeviceWithConnectionHandle(W, h) ==
  FirstWhere(W, {i \in 1..Len(W.peripheral_list) :
                   W.dev[W.peripheral_list[i]].connection_handle = h})

FindConnectingDevice(W) ==
  FirstWhere(W, {i \in 1..Len(W.peripheral_list) :
                   W.dev[W.peripheral_list[i]].connectionState = STATE_CONNECTING})

GetHandle(d, c) ==
  IF d.bootloaderMode THEN (c = "bls" /\ d.blHandle)
  ELSE (c \in d.attributeList /\ c \in d.handles)

GetCCCHandle(d, c) ==
  IF d.bootloaderMode THEN (c = "bls" /\ d.blCccHandle) ELSE FALSE

(***************************************************************************)
(* The radio controller (BGAPI).  A command changes the controller's state *)
(* and queues its response; events are queued by the controller's own      *)
(* steps.  Field fin of a packet is 1 when that packet is the completion   *)
(* of a command.                                                           *)
(***************************************************************************)
Msg(t, c, a, r, x, fin) == [t |-> t, c |-> c, a |-> a, r |-> r, x |-> x, fin |-> fin]

Enq(W, ms) == [W EXCEPT !.rxq = @ \o ms]

NoLink == [st |-> "none", h |-> None, enc |-> "no"]
NoProc == [kind |-> "idle", x |-> 0]

WriteKinds == {"write", "prepare_write", "execute_write"}

\* no TransmitPacket call made yet
NoTx == [op |-> 0, kind |-> "none", len |-> 0, timeout |-> 0, result |-> "none",
         sent |-> 0, acked |-> 0, elapsed |-> 0]

LinkUp(W, h) == {a \in Addr : W.rlink[a].st = "up" /\ W.rlink[a].h = h}

UsedHandles(W) == {W.rlink[a].h : a \in {b \in Addr : W.rlink[b].st \in {"up", "closing"}}}

ble_cmd_gap_connect_direct(W, a) ==
  IF W.rlink[a].st = "none" /\ \A b \in Addr : W.rlink[b].st # "pending"
  THEN Enq([W EXCEPT !.rlink[a].st = "pending"],
           <<Msg("rsp_gap_connect_direct", None, a, RESULT_OK, 0, 1)>>)
  ELSE Enq(W, <<Msg("rsp_gap_connect_direct", None, a, RESULT_ERROR, 0, 1)>>)

ble_cmd_gap_end_procedure(W) ==
  Enq([W EXCEPT !.rlink = [a \in Addr |->
           IF W.rlink[a].st = "pending" THEN NoLink ELSE W.rlink[a]]],
      <<Msg("rsp_gap_end_procedure", None, 0, RESULT_OK, 0, 1)>>)

ble_cmd_gap_discover(W) ==
  Enq(W, <<Msg("rsp_gap_discover", None, 0, RESULT_OK, 0, 1)>>)

ble_cmd_connection_disconnect(W, h) ==
  IF LinkUp(W, h) # {}
  THEN LET a == CHOOSE b \in LinkUp(W, h) : TRUE
       IN Enq([W EXCEPT !.rlink[a].st = "closing"],
              <<Msg("rsp_connection_disconnect", h, 0, RESULT_OK, 0, 1)>>)
  ELSE Enq(W, <<Msg("rsp_connection_disconnect", h, 0, RESULT_ERROR, 0, 1)>>)

ble_cmd_sm_encrypt_start(W, h) ==
  IF LinkUp(W, h) # {}
  THEN LET a == CHOOSE b \in LinkUp(W, h) : TRUE
       IN Enq([W EXCEPT !.rlink[a].enc =
                   IF @ = "yes" THEN "yes" ELSE "starting"],
              <<Msg("rsp_sm_encrypt_start", h, 0, RESULT_OK, 0, 1)>>)
  ELSE Enq(W, <<Msg("rsp_sm_encrypt_start", h, 0, RESULT_ERROR, 0, 1)>>)

\* read_by_type, read_by_group_type, find_information, attribute_write,
\* prepare_write, execute_write: one procedure per connection at a time
ble_cmd_attclient(W, h, kind, x) ==
  IF LinkUp(W, h) # {} /\ W.rproc[CHOOSE b \in LinkUp(W, h) : TRUE].kind = "idle"
  THEN LET a == CHOOSE b \in LinkUp(W, h) : TRUE
       IN [W EXCEPT !.rproc[a] = [kind |-> kind, x |-> x]]
  ELSE Enq(W, <<Msg("rsp_attclient", h, 0, RESULT_ERROR, 0, 1)>>)

ConnStatus(W, a) ==
  Msg("evt_connection_status", W.rlink[a].h, a,
      FLAG_CONNECTED + (IF W.rlink[a].enc = "yes" THEN FLAG_ENCRYPTED ELSE 0), 0, 0)

RECURSIVE StatusOfAll(_, _)
StatusOfAll(W, S) ==
  IF S = {} THEN <<>>
  ELSE LET a == CHOOSE b \in S : \A c \in S : W.rlink[b].h <= W.rlink[c].h
       IN <<ConnStatus(W, a)>> \o StatusOfAll(W, S \ {a})

ble_cmd_system_get_connections(W) ==
  Enq(W, <<Msg("rsp_system_get_connections", None, 0, RESULT_OK, 0, 1)>>
                 \o StatusOfAll(W, {a \in Addr : W.rlink[a].st = "up"}))

ble_cmd_gap_set_adv_data(W) ==
  Enq(W, <<Msg("rsp_gap_set_adv_data", None, 0, RESULT_OK, 0, 1)>>)

ble_cmd_gap_set_mode(W) ==
  Enq(W, <<Msg("rsp_gap_set_mode", None, 0, RESULT_OK, 0, 1)>>)

(***************************************************************************)
(* Host: the polling loops that are on the call stack.  A frame is a loop  *)
(* of the code that polls the radio; the code after the loop runs when the *)
(* frame is left.  polled records that packets were parsed in the current  *)
(* Process() call, whose remaining part then runs before the loop          *)
(* condition is looked at again.                                           *)
(***************************************************************************)
Frame(fn, a, tmo) ==
  [fn |-> fn, a |-> a, tmo |-> tmo, polled |-> FALSE, t |-> 0, len |-> 0, off |-> 0, c |-> ""]

\* a wait loop of TransmitPacket: t is the time spent in it so far
TxFrame(fn, a, len, off, c) == [Frame(fn, a, FALSE) EXCEPT !.len = len, !.off = off, !.c = c]

Push(W, f) == [W EXCEPT !.stk = <<f>> \o @]

Pop(W) == [W EXCEPT !.stk = Tail(@)]

Discover(W) ==
  SetBusyFlag([ble_cmd_gap_discover(W) EXCEPT !.bgCentralState = CENTRAL_STATE_SCANNING])

EndProcedure(W) ==
  SetBusyFlag(ble_cmd_gap_end_procedure(
      [W EXCEPT !.bgCentralState = CENTRAL_STATE_STOPPING]))

TestConnection(W) == SetBusyFlag(ble_cmd_system_get_connections(W))

SetAdvertisingData(W) == SetBusyFlag(ble_cmd_gap_set_adv_data(W))

SetAdvertisingState(W, state) ==
  SetBusyFlag(ble_cmd_gap_set_mode(
      [W EXCEPT !.bgPeriphState = IF state THEN PERIPH_STATE_ADVERTISING
                                  ELSE PERIPH_STATE_STOPPING]))

ProcessFailedConnection(W, a) ==
  LET W1 == [SetState(W, a, STATE_STANDBY) EXCEPT !.dev[a].connectionSent = FALSE]
      W2 == EndProcedure(W1)
      n  == W2.dev[a].failedConnectionAttempts + 1
  IN [W2 EXCEPT !.dev[a].failedConnectionAttempts =
          IF n >= MAX_FAILED_CONNECTION_ATTEMPTS THEN 0 ELSE n,
                !.att.fails[a] = IF @ >= MAX_FAILED_CONNECTION_ATTEMPTS THEN @ ELSE @ + 1]

\* a variant that enables notifications first
ProcessDiscoveredDeviceEnabling(W, a) == SetState(W, a, STATE_ENABLING_NOTIFICATIONS)

ProcessDiscoveredDevice(W, a) == SetState(W, a, STATE_LISTENING_DATA)

ProcessDiscoveredBootloaderXim(W, a) ==
  IF GetCCCHandle(W.dev[a], "bls")
  THEN SetState(SetBusyFlag(ble_cmd_attclient(W, W.dev[a].connection_handle, "write", 0)),
                a, STATE_ENABLING_NOTIFICATIONS)
  ELSE W

ProcessNormalConnection(W, a, conn) ==
  IF ~GetHandle(W.dev[a], "ud")
  THEN SetBusyFlag(ble_cmd_attclient(SetState(W, a, STATE_GET_VERSION),
                                     conn, "read_by_type", 0))
  ELSE SetState(W, a, STATE_LISTENING_DATA)

ProcessBootloadConnection(W, a, conn) ==
  IF ~GetHandle(W.dev[a], "bls")
  THEN SetBusyFlag(ble_cmd_attclient(SetState(W, a, STATE_FINDING_SERVICES),
                                     conn, "read_by_group_type", 0))
  ELSE ProcessDiscoveredBootloaderXim(W, a)

\* Disconnect(address): the wait for the busy flag comes first
Disconnect(W, a) == Push(W, Frame("Disconnect", a, FALSE))

\* TestConnection was just sent; EnableConnections and Connect follow
Reconnect(W, a) == Push(W, Frame("TransmitAdvertisement", a, FALSE))

\* Connect(address, timeout) after the lookup of the device
Connect(W, a, tmo) ==
  IF IsConnected(W, a) THEN W
  ELSE Push([W EXCEPT !.dev[a].connectionSent = FALSE], Frame("Connect", a, tmo))

my_ble_rsp_gap_discover(W, m) ==
  IF m.r = 0 THEN [ClearBusy(W) EXCEPT !.bgCentralState = CENTRAL_STATE_SCANNING]
  ELSE ClearBusy(W)

RECURSIVE StandbyConnecting(_, _)
StandbyConnecting(W, i) ==
  IF i > Len(W.peripheral_list) THEN W
  ELSE LET a == W.peripheral_list[i]
       IN StandbyConnecting(
            IF W.dev[a].connectionState = STATE_CONNECTING
            THEN SetState(W, a, STATE_STANDBY) ELSE W, i + 1)

my_ble_rsp_gap_end_procedure(W, m) ==
  StandbyConnecting([ClearBusy(W) EXCEPT !.bgCentralState = CENTRAL_STATE_STANDBY], 1)

my_ble_rsp_gap_set_mode(W, m) ==
  IF m.r = 0
  THEN [ClearBusy(W) EXCEPT !.bgPeriphState =
            IF @ = PERIPH_STATE_STOPPING THEN PERIPH_STATE_STANDBY ELSE @]
  ELSE [ClearBusy(W) EXCEPT !.bgPeriphState =
            IF @ = PERIPH_STATE_STOPPING THEN PERIPH_STATE_ADVERTISING ELSE @]

my_ble_rsp_gap_connect_direct(W, m) ==
  LET a == FindConnectingDevice(W)
  IN IF m.r = 0
     THEN ClearBusy(IF a # NoDev THEN [W EXCEPT !.dev[a].connectionSent = TRUE] ELSE W)
     ELSE SetBusyFlag(ble_cmd_gap_end_procedure(
            IF a # NoDev
            THEN [SetState(W, a, STATE_STANDBY) EXCEPT !.dev[a].connectionSent = FALSE]
            ELSE W))

my_ble_evt_connection_status(W, m) ==
  LET a  == GetDeviceWithAddress(W, m.a)
      W1 == IF Bit(m.r, FLAG_COMPLETED)
            THEN [W EXCEPT !.bgCentralState = CENTRAL_STATE_STANDBY] ELSE W
  IN IF m.r = 0 THEN W
     ELSE IF Bit(m.r, FLAG_CONNECTED)
     THEN IF a # NoDev
          THEN LET W2 == [W1 EXCEPT !.dev[a].failedConnectionAttempts = 0,
                                       !.att.fails[a] = 0]
                   d  == W2.dev[a]
               IN IF d.connectionState = STATE_STANDBY
                  THEN Disconnect([W2 EXCEPT !.dev[a].connection_handle = m.c], a)
                  ELSE IF d.connection_handle # m.c
                          \/ d.connectionState \in {STATE_CONNECTING, STATE_ENCRYPTING}
                  THEN LET W3 == [W2 EXCEPT !.dev[a].connection_handle = m.c]
                       IN IF Bit(m.r, FLAG_ENCRYPTED)
                             \/ (~d.encryptionRequired /\ ~d.bootloaderMode)
                          THEN IF d.bootloaderMode
                               THEN ProcessBootloadConnection(W3, a, m.c)
                               ELSE ProcessNormalConnection(W3, a, m.c)
                          ELSE IF d.connectionState = STATE_CONNECTING
                               THEN Push(W3, Frame("EncryptWait", a, FALSE))
                               ELSE W3
                  ELSE W2
          ELSE SetBusyFlag(ble_cmd_connection_disconnect(W1, m.c))
     ELSE IF a # NoDev
          THEN SetBusyFlag(ble_cmd_connection_disconnect(
                              SetState(W1, a, STATE_DISCONNECTING), m.c))
          ELSE W1

my_ble_evt_connection_disconnected(W, m) ==
  LET W1 == ClearBusy(W)
      a  == GetDeviceWithConnectionHandle(W1, m.c)
  IN IF a = NoDev THEN W1
     ELSE LET W2 == [W1 EXCEPT !.dev[a].connection_handle = None]
          IN IF W2.dev[a].connectionState \notin {STATE_DISCONNECTING, STATE_STANDBY}
             THEN LET n  == W2.dev[a].unexpectedDisconnections + 1
                      W3 == TestConnection(SetState(
                              [W2 EXCEPT !.dev[a].unexpectedDisconnections = n],
                              a, STATE_STANDBY))
                  IN IF n <= MAX_UNEXPECTED_DISCONNECTIONS
                     THEN Reconnect(W3, a)
                     ELSE W3
             ELSE SetState([W2 EXCEPT !.dev[a].unexpectedDisconnections = 0],
                           a, STATE_STANDBY)

my_ble_rsp_sm_encrypt_start(W, m) ==
  LET a == GetDeviceWithConnectionHandle(W, m.c)
  IN ClearBusy(IF a # NoDev /\ m.r = 0 THEN SetState(W, a, STATE_ENCRYPTING) ELSE W)

my_ble_evt_sm_bonding_fail(W, m) ==
  LET a == GetDeviceWithConnectionHandle(W, m.c)
  IN IF a = NoDev THEN W
     ELSE LET W1 == IF m.r = RESULT_PAIRING_NOT_SUPPORTED
                    THEN [W EXCEPT !.dev[a].encryptionRequired = FALSE] ELSE W
          IN IF W1.dev[a].connectionState = STATE_ENCRYPTING
             THEN ProcessNormalConnection(SetState(W1, a, STATE_CONNECTING), a, m.c)
             ELSE W1

(***************************************************************************)
(* Attribute discovery and the handle cache file.                          *)
(***************************************************************************)
\* characteristics appended to attributeList for a software version
NewChars(v) == IF v >= 75 THEN {"s1", "gm"} ELSE IF v >= 55 THEN {"s1"} ELSE {}

Line(v, cs) == [ver |-> v, chars |-> cs]

\* the list GetAttributeInfoFromFile / UpdateAttributeInfoFile work on
ThisList(d) == IF d.bootloaderMode THEN {"bls"} ELSE d.attributeList

MatchingLines(W, d) == {l \in W.cacheFile : l.ver = d.swVersion}

\* returns missingInfo; the handles it assigns are in HandlesFromFile
GetAttributeInfoFromFile(W, d) ==
  ~\E l \in MatchingLines(W, d) : ThisList(d) \subseteq l.chars

\* Every matching line up to the first complete one assigns its handles; a
\* complete line holds the whole list, so the union over all matching lines
\* is what the scan assigns.
HandlesFromFile(W, d) ==
  IF d.bootloaderMode THEN {}
  ELSE UNION {l.chars \cap d.attributeList : l \in MatchingLines(W, d)}

\* the map file is on disk, no rewrite under way
WholeMap == [onDisk |-> TRUE, tmp |-> {}, tmpOnDisk |-> FALSE, pc |-> "idle"]

\* the lines read and the new line are written to the temporary file
WriteTempFile(W, newLine) ==
  [W EXCEPT !.mapFile.tmp = W.cacheFile \cup {newLine},
            !.mapFile.tmpOnDisk = TRUE,
            !.mapFile.pc = "written"]

\* RenameSafely, first half: the old file is removed
RemoveOldFile(W) ==
  IF W.mapFile.onDisk /\ W.mapFile.tmpOnDisk
  THEN [W EXCEPT !.mapFile.onDisk = FALSE, !.mapFile.pc = "removed"]
  ELSE [W EXCEPT !.mapFile.pc = "removed"]

\* RenameSafely, second half: the temporary file takes the old file's name
RenameNewFile(W) ==
  IF ~W.mapFile.onDisk /\ W.mapFile.tmpOnDisk
  THEN [W EXCEPT !.cacheFile = W.mapFile.tmp, !.mapFile = WholeMap]
  ELSE [W EXCEPT !.mapFile.pc = "idle"]

RenameSafely(W) == RenameNewFile(RemoveOldFile(W))

UpdateAttributeInfoFile(W, a) ==
  LET d == W.dev[a]
      newLine == Line(d.swVersion, ThisList(d))
      hasNullHandle == IF d.bootloaderMode THEN ~d.blHandle
                       ELSE ~(d.attributeList \subseteq d.handles)
  IN IF hasNullHandle THEN W ELSE RenameSafely(WriteTempFile(W, newLine))

ProcessSwVersion(W, a, v) ==
  IF v # W.dev[a].swVersion /\ v # None THEN [W EXCEPT !.dev[a].swVersion = v] ELSE W

my_ble_evt_attclient_attribute_value(W, m) ==
  LET W1 == ClearBusy(W)
      a  == GetDeviceWithConnectionHandle(W1, m.c)
  IN IF a # NoDev /\ W1.dev[a].connectionState = STATE_GET_VERSION
     THEN ProcessSwVersion(W1, a, m.x)
     ELSE W1

my_ble_evt_attclient_group_found(W, m) ==
  LET a == GetDeviceWithConnectionHandle(W, m.c)
  IN IF a = NoDev THEN W
     ELSE IF W.dev[a].bootloaderMode
          THEN (IF m.x = BlSvc THEN [W EXCEPT !.dev[a].blHandleEnd = TRUE] ELSE W)
          ELSE IF m.x \in W.dev[a].serviceList
               THEN [W EXCEPT !.dev[a].att_handle_end = @ \cup {m.x}]
               ELSE W

my_ble_evt_attclient_find_information_found(W, m) ==
  LET a == GetDeviceWithConnectionHandle(W, m.c)
  IN IF a = NoDev THEN W
     ELSE IF W.dev[a].bootloaderMode
          THEN (IF m.x = "bls" THEN [W EXCEPT !.dev[a].blHandle = TRUE]
                ELSE IF m.x = "blsccc" /\ W.dev[a].blHandle
                     THEN [W EXCEPT !.dev[a].blCccHandle = TRUE]
                     ELSE W)
          ELSE IF m.x \in W.dev[a].attributeList
               THEN [W EXCEPT !.dev[a].handles = @ \cup {m.x}]
               ELSE W

\* one pass of the loop over the services of a normal-mode device, in list
\* order; n counts the services still undiscovered
RECURSIVE FindServices(_, _, _, _)
FindServices(W, a, sv, n) ==
  IF sv > 2 THEN [w |-> W, n |-> n]
  ELSE IF sv \notin W.dev[a].serviceList THEN FindServices(W, a, sv + 1, n)
  ELSE IF W.dev[a].attributesDiscovered[sv] = SERVICE_ATTRIBUTES_FINDING
  THEN FindServices([W EXCEPT !.dev[a].attributesDiscovered[sv] = SERVICE_ATTRIBUTES_FOUND],
                    a, sv + 1, n)
  ELSE IF W.dev[a].attributesDiscovered[sv] = SERVICE_ATTRIBUTES_NONE
  THEN IF sv \in W.dev[a].att_handle_end /\ ~W.pending_write
       THEN FindServices(
              [SetBusyFlag(ble_cmd_attclient(W, W.dev[a].connection_handle,
                                             "find_information", sv))
                 EXCEPT !.dev[a].attributesDiscovered[sv] = SERVICE_ATTRIBUTES_FINDING],
              a, sv + 1, n)
       ELSE FindServices(W, a, sv + 1, n + 1)
  ELSE FindServices(W, a, sv + 1, n)

\* the same pass over the one service of the bootloader list
FindBlServices(W, a) ==
  IF W.dev[a].blAttributesDiscovered = SERVICE_ATTRIBUTES_FINDING
  THEN [w |-> [W EXCEPT !.dev[a].blAttributesDiscovered = SERVICE_ATTRIBUTES_FOUND], n |-> 0]
  ELSE IF W.dev[a].blAttributesDiscovered = SERVICE_ATTRIBUTES_NONE
  THEN IF W.dev[a].blHandleEnd /\ ~W.pending_write
       THEN [w |-> [SetBusyFlag(ble_cmd_attclient(W, W.dev[a].connection_handle,
                                                  "find_information", BlSvc))
                      EXCEPT !.dev[a].blAttributesDiscovered = SERVICE_ATTRIBUTES_FINDING],
             n |-> 0]
       ELSE [w |-> W, n |-> 1]
  ELSE [w |-> W, n |-> 0]

\* services left in FINDING by an interrupted discovery are searched again
ResetFinding(W, a) ==
  IF W.dev[a].bootloaderMode
  THEN [W EXCEPT !.dev[a].blAttributesDiscovered =
           IF @ = SERVICE_ATTRIBUTES_FINDING THEN SERVICE_ATTRIBUTES_NONE ELSE @]
  ELSE [W EXCEPT !.dev[a].attributesDiscovered = [sv \in Svc |->
           IF @[sv] = SERVICE_ATTRIBUTES_FINDING /\ sv \in W.dev[a].serviceList
           THEN SERVICE_ATTRIBUTES_NONE ELSE @[sv]]]

\* procedure_completed in STATE_GET_VERSION, XIM with firmware >= 0.040: from
\* 0.055 on the sensor service and the new characteristics are added and
\* looked for; below, the CCC handle of the DALI response characteristic is
GetVersionCompleted(W, a, conn) ==
  IF W.dev[a].swVersion = None THEN W
  ELSE LET v == W.dev[a].swVersion
           newChars == NewChars(v)
           W1 == IF v >= 55
                 THEN [W EXCEPT !.dev[a].serviceList = @ \cup {2},
                                !.dev[a].attributeList = @ \cup newChars]
                 ELSE W
           missingInfo == GetAttributeInfoFromFile(W1, W1.dev[a])
           W2 == [W1 EXCEPT !.dev[a].handles = @ \cup HandlesFromFile(W1, W1.dev[a])]
           missingNewHandle == IF v >= 55
                               THEN \E c \in newChars : ~GetHandle(W2.dev[a], c)
                               ELSE ~GetCCCHandle(W2.dev[a], "dr")
       IN IF missingInfo \/ missingNewHandle
          THEN SetBusyFlag(ble_cmd_attclient(
                 SetState(ResetFinding(W2, a), a, STATE_FINDING_SERVICES),
                 conn, "read_by_group_type", 0))
          ELSE ProcessDiscoveredDevice(W2, a)

my_ble_evt_attclient_procedure_completed(W, m) ==
  LET W1 == ClearBusy(W)
      a  == GetDeviceWithConnectionHandle(W1, m.c)
  IN IF a = NoDev THEN W1
     ELSE LET st == W1.dev[a].connectionState
          IN IF st = STATE_GET_VERSION THEN GetVersionCompleted(W1, a, m.c)
             ELSE IF st = STATE_FINDING_SERVICES
             THEN LET r == IF W1.dev[a].bootloaderMode THEN FindBlServices(W1, a)
                           ELSE FindServices(W1, a, 1, 0)
                  IN IF r.n = 0 THEN SetState(r.w, a, STATE_FINDING_ATTRIBUTES) ELSE r.w
             ELSE IF st = STATE_FINDING_ATTRIBUTES
             THEN IF W1.dev[a].bootloaderMode
                  THEN ProcessDiscoveredBootloaderXim(W1, a)
                  ELSE UpdateAttributeInfoFile(ProcessDiscoveredDevice(W1, a), a)
             ELSE IF st = STATE_ENABLING_NOTIFICATIONS
             THEN SetState(W1, a, STATE_LISTENING_DATA)
             ELSE [W1 EXCEPT !.dev[a].packetStatus = m.r,
                             !.dev[a].bulkPacketTransferred = TRUE]

\* parse one packet: the handler registered for its kind
Handle(W, m) ==
  CASE m.t = "rsp_gap_discover" -> my_ble_rsp_gap_discover(W, m)
    [] m.t = "rsp_gap_end_procedure" -> my_ble_rsp_gap_end_procedure(W, m)
    [] m.t = "rsp_gap_set_mode" -> my_ble_rsp_gap_set_mode(W, m)
    [] m.t = "rsp_gap_set_adv_data" -> ClearBusy(W)
    [] m.t = "rsp_system_get_connections" -> ClearBusy(W)
    [] m.t = "rsp_connection_disconnect" -> ClearBusy(W)
    [] m.t = "rsp_gap_connect_direct" -> my_ble_rsp_gap_connect_direct(W, m)
    [] m.t = "rsp_sm_encrypt_start" -> my_ble_rsp_sm_encrypt_start(W, m)
    [] m.t = "rsp_attclient" -> W
    [] m.t = "evt_connection_status" -> my_ble_evt_connection_status(W, m)
    [] m.t = "evt_connection_disconnected" -> my_ble_evt_connection_disconnected(W, m)
    [] m.t = "evt_sm_bonding_fail" -> my_ble_evt_sm_bonding_fail(W, m)
    [] m.t = "evt_attclient_attribute_value" -> my_ble_evt_attclient_attribute_value(W, m)
    [] m.t = "evt_attclient_group_found" -> my_ble_evt_attclient_group_found(W, m)
    [] m.t = "evt_attclient_find_information_found" ->
         my_ble_evt_attclient_find_information_found(W, m)
    [] m.t = "evt_attclient_procedure_completed" ->
         my_ble_evt_attclient_procedure_completed(W, m)

(***************************************************************************)
(* Process(): what follows CheckActivity.  to is the set of timers that    *)
(* have run out when it is called.                                         *)
(***************************************************************************)
Timers == {"pending_write", "disconnect", "connect", "advertising"}

RECURSIVE ProcessDevices(_, _, _)
ProcessDevices(W, i, to) ==
  IF i > Len(W.peripheral_list) THEN W
  ELSE LET a  == W.peripheral_list[i]
           W1 == IF W.dev[a].connectionState = STATE_DISCONNECTING /\ "disconnect" \in to
                 THEN SetState(W, a, STATE_STANDBY) ELSE W
           Wf == ProcessFailedConnection(W1, a)
           W2 == IF W1.dev[a].connectionState = STATE_CONNECTING /\ "connect" \in to
                 THEN [Wf EXCEPT !.att.abandoned = @ \cup
                         {[a |-> a, before |-> W1.dev[a].failedConnectionAttempts,
                           after |-> Wf.dev[a].failedConnectionAttempts,
                           state |-> Wf.dev[a].connectionState]}]
                 ELSE W1
       IN ProcessDevices(W2, i + 1, to)

Process(W, to) ==
  LET W1 == IF W.pending_write /\ "pending_write" \in to THEN ClearBusy(W) ELSE W
      W2 == ProcessDevices(W1, 1, to)
  IN IF W2.pending_write THEN W2
     ELSE IF W2.bgCentralState = CENTRAL_STATE_STANDBY THEN Discover(W2)
     ELSE IF W2.bgPeriphState = PERIPH_STATE_ADVERTISING /\ "advertising" \in to
          THEN SetAdvertisingState(W2, FALSE)
          ELSE W2

\* body of the first loop of Connect, after Process()
ConnectBody(W, a) ==
  IF /\ W.dev[a].connection_handle = None
     /\ ~W.dev[a].connectionSent
     /\ ~IsSystemBusy(W)
     /\ ~W.pending_write
  THEN SetBusyFlag(ble_cmd_gap_connect_direct(
         [SetState(W, a, STATE_CONNECTING) EXCEPT
            !.bgCentralState = CENTRAL_STATE_CONNECTING,
            !.att.started = IF W.att.fails[a] >= MAX_FAILED_CONNECTION_ATTEMPTS
                            THEN @ \cup {a} ELSE @],
         a))
  ELSE W

(***************************************************************************)
(* TransmitPacket(address, txPacket, uuid, timeout).  The packet is kept   *)
(* as its length, the characteristic as its name.  Each of its wait loops  *)
(* is a frame; the code between two loops runs when the first is left.     *)
(***************************************************************************)
ChunkSize(len, off) ==
  IF len - off >= MAX_GATT_CHUNK_WRITE_SIZE THEN MAX_GATT_CHUNK_WRITE_SIZE ELSE len - off

\* number of prepare_write commands a packet of this length takes
NumChunks(len) == (len + MAX_GATT_CHUNK_WRITE_SIZE - 1) \div MAX_GATT_CHUNK_WRITE_SIZE

\* the value TransmitPacket returns, and the time its last wait took
Return(W, f, b) ==
  [W EXCEPT !.tx.result = IF b THEN "true" ELSE "false", !.tx.elapsed = f.t]

SendWrite(W, f, kind, loop) ==
  Push(SetBusyFlag(ble_cmd_attclient([W EXCEPT !.tx.sent = @ + 1],
                                     W.dev[f.a].connection_handle, kind, W.tx.op)),
       TxFrame(loop, f.a, f.len, f.off, f.c))

PrepareWrite(W, f) ==
  SendWrite([W EXCEPT !.dev[f.a].bulkPacketTransferred = FALSE], f, "prepare_write", "ChunkWait")

ExecuteWrite(W, f) ==
  SendWrite([W EXCEPT !.dev[f.a].bulkPacketTransferred = FALSE], f, "execute_write", "CommitWait")

\* after the wait for the busy flag
TransmitPacketBody(W, f) ==
  IF ~W.pending_write /\ GetHandle(W.dev[f.a], f.c) /\ W.dev[f.a].connection_handle # None
  THEN IF f.len <= MAX_GATT_WRITE_SIZE
       THEN SendWrite([W EXCEPT !.dev[f.a].packetStatus = None], f, "write", "WriteWait")
       ELSE PrepareWrite(W, f)
  ELSE Return(W, f, FALSE)

TransmitPacket(W, a, len, c, timeout) ==
  LET W1 == [W EXCEPT !.tx = [op |-> W.tx.op + 1,
                              kind |-> IF len <= MAX_GATT_WRITE_SIZE THEN "single" ELSE "chunked",
                              len |-> len, timeout |-> timeout, result |-> "none",
                              sent |-> 0, acked |-> 0, elapsed |-> 0]]
      f  == TxFrame("TransmitPacket", a, len, 0, c)
  IN IF GetDeviceWithAddress(W, a) # NoDev /\ (IsConnected(W, a) \/ IsDiscovering(W, a))
     THEN Push(W1, f)
     ELSE Return(W1, f, FALSE)

Top(W) == IF W.stk = <<>> THEN Frame("idle", NoDev, FALSE) ELSE Head(W.stk)

\* frames whose loop calls Process(); the others call CheckActivity only
ProcessLoops == {"idle", "Connect", "ConnectWait", "Disconnect"}

\* the condition of the loop on top of the stack, time apart
LoopCondition(W) ==
  LET f == Top(W)
  IN CASE f.fn = "Connect" -> ~W.dev[f.a].connectionSent
       [] f.fn = "ConnectWait" -> ~IsConnected(W, f.a)
       [] f.fn = "Disconnect" -> W.pending_write
       [] f.fn = "TransmitAdvertisement" -> W.pending_write
       [] f.fn = "TransmitPacket" -> W.pending_write
       [] f.fn = "WriteWait" ->
            W.dev[f.a].packetStatus = None /\ f.t < MAX_CHUNK_WAIT_TIME
       [] f.fn \in {"ChunkWait", "CommitWait"} ->
            /\ W.pending_write \/ ~W.dev[f.a].bulkPacketTransferred
            /\ f.t < MAX_CHUNK_WAIT_TIME
       [] OTHER -> TRUE

MarkPolled(W) ==
  IF W.stk # <<>> /\ Head(W.stk).fn \in ProcessLoops
  THEN [W EXCEPT !.stk[1].polled = TRUE] ELSE W

ClearPolled(W) ==
  IF W.stk # <<>> THEN [W EXCEPT !.stk[1].polled = FALSE] ELSE W

\* the code that follows the loop of frame f, run when the loop is left
AfterLoop(W, f) ==
  CASE f.fn = "Connect" ->
         IF ~f.tmo THEN W
         ELSE IF W.dev[f.a].connectionSent THEN Push(W, Frame("ConnectWait", f.a, TRUE))
         ELSE ProcessFailedConnection(W, f.a)
    [] f.fn = "ConnectWait" ->
         IF W.dev[f.a].connectionState = STATE_CONNECTING
         THEN ProcessFailedConnection(W, f.a) ELSE W
    [] f.fn = "Disconnect" ->
         IF W.dev[f.a].connectionState = STATE_CONNECTING THEN W
         ELSE IF W.dev[f.a].connection_handle # None
         THEN SetBusyFlag(ble_cmd_connection_disconnect(
                SetState(W, f.a, STATE_DISCONNECTING), W.dev[f.a].connection_handle))
         ELSE SetState(W, f.a, STATE_STANDBY)
    [] f.fn = "EncryptWait" ->
         IF W.dev[f.a].connection_handle # None
         THEN SetBusyFlag(ble_cmd_sm_encrypt_start(W, W.dev[f.a].connection_handle))
         ELSE W
    [] f.fn = "TransmitAdvertisement" ->
         Push(SetAdvertisingData(W), Frame("CheckActivity", f.a, FALSE))
    [] f.fn = "CheckActivity" ->
         Connect(SetAdvertisingState(W, TRUE), f.a, FALSE)
    [] f.fn = "TransmitPacket" -> TransmitPacketBody(W, f)
    [] f.fn = "WriteWait" -> Return(W, f, W.dev[f.a].packetStatus = 0)
    [] f.fn = "ChunkWait" ->
         IF W.dev[f.a].bulkPacketTransferred /\ W.dev[f.a].packetStatus = 0
         THEN LET off == f.off + ChunkSize(f.len, f.off)
              IN IF f.len - off > 0 THEN PrepareWrite(W, [f EXCEPT !.off = off])
                 ELSE ExecuteWrite(W, f)
         ELSE Return(W, f, FALSE)
    [] f.fn = "CommitWait" ->
         Return(W, f, W.dev[f.a].bulkPacketTransferred /\ W.dev[f.a].packetStatus = 0)

(***************************************************************************)
(* Network configurations, their file, and the sequence counter.  A line   *)
(* of the file is the list of its comma-separated fields.                  *)
(***************************************************************************)
NetworkConfig(id, networkHeaderKey, key, sqn) ==
  [id |-> id, headerKey |-> networkHeaderKey, key |-> key, txSqn |-> sqn]

\* one line per configuration: id, key, header key, counter
FileLines(cfgs) ==
  [i \in 1..Len(cfgs) |-> <<cfgs[i].id, cfgs[i].key, cfgs[i].headerKey, cfgs[i].txSqn>>]

\* a line of three fields has no header key; the list is filled up to two
GetNetworkInfoFromFile(lines) ==
  [i \in 1..2 |->
     IF i <= Len(lines)
     THEN IF Len(lines[i]) = 3
          THEN NetworkConfig(lines[i][1], 0, lines[i][2], lines[i][3])
          ELSE NetworkConfig(lines[i][1], lines[i][3], lines[i][2], lines[i][4])
     ELSE NetworkConfig(0, 0, NETWORK_KEY_NONE, 0)]

\* selectedTx, selectedRx and adminMode are the globals as the module sets
\* them when it is loaded; nonces lists the application key and the nonce of
\* every payload encryption of this run, in the order they were done
NoSeq == [pc |-> "idle", n |-> 0, crashes |-> 0, last |-> None, prev |-> None,
          lastFull |-> None, loaded |-> None, atCrash |-> None,
          selectedTx |-> selectedTxNetworkIndex, selectedRx |-> selectedRxNetworkIndex,
          adminMode |-> FALSE, nonces |-> <<>>]

\* the packet is handed to the radio as advertising data: it is on the air
TransmitAdvertisement(W, sqn, full) ==
  [W EXCEPT !.seq.prev = W.seq.last, !.seq.last = sqn,
            !.seq.lastFull = IF full THEN sqn ELSE @,
            !.seq.n = @ + 1, !.seq.pc = "sent"]

NextSqn(n) == IF n + 1 >= XBX_SEQUENCE_ID_MAX_VALUE THEN 1 ELSE n + 1

\* up to and including TransmitAdvertisement
SetXBAssignedPacket(W) ==
  LET W1 == [W EXCEPT !.networkConfigs[selectedTxNetworkIndex].txSqn = NextSqn(@)]
  IN TransmitAdvertisement(W1, W1.networkConfigs[selectedTxNetworkIndex].txSqn, TRUE)

\* up to and including TransmitAdvertisement
BroadcastCommand(W) ==
  LET sqn == W.networkConfigs[selectedTxNetworkIndex].txSqn % BYTE
      W1  == [W EXCEPT !.networkConfigs[selectedTxNetworkIndex].txSqn = NextSqn(@)]
  IN TransmitAdvertisement(W1, sqn, FALSE)

\* open(bleNetworkConfigFileName, 'w') empties the file
OpenConfigFile(W) == [W EXCEPT !.netFile = <<>>, !.seq.pc = "open"]

\* the lines are written and the file is closed
WriteConfigFile(W) == [W EXCEPT !.netFile = FileLines(W.networkConfigs), !.seq.pc = "idle"]

UpdateNetworkConfigFile(W) == WriteConfigFile(OpenConfigFile(W))

\* Start() of a new process: a map file that is missing is created empty;
\* memory is what the credential file holds
Start(W) ==
  LET W0 == [W EXCEPT !.cacheFile = IF W.mapFile.onDisk THEN @ ELSE {},
                      !.mapFile.onDisk = TRUE,
                      !.mapFile.pc = "idle"]
      W1 == [W0 EXCEPT !.networkConfigs = GetNetworkInfoFromFile(W.netFile)]
  IN [UpdateNetworkConfigFile(W1) EXCEPT
        !.seq.loaded = W1.networkConfigs[selectedTxNetworkIndex].txSqn,
        !.seq.atCrash = W.seq.lastFull,
        !.seq.last = None, !.seq.prev = None,
        !.seq.crashes = @ + 1]

(***************************************************************************)
(* The serial connection.  check_activity of the library throws when the   *)
(* port cannot be read; CheckActivity counts the exception and raises it   *)
(* again.  Process() restarts the connection when the count has passed     *)
(* MAX_SERIAL_FAILURES.  The commands of Stop() and SendInitSequence() are *)
(* answered inside the CheckActivity(ser, 1) that follows each of them, so *)
(* a restart is one step; what it is given: stopFails and initFails, an    *)
(* exception is thrown inside Stop() or SendInitSequence(); found, a port  *)
(* answers in TestPort().                                                  *)
(***************************************************************************)
\* the except clause of CheckActivity
CountFailure(W) ==
  [W EXCEPT !.serialFailures = @ + 1, !.ser.counted = @ + 1]

RECURSIVE StopDevices(_, _)
StopDevices(W, i) ==
  IF i > Len(W.peripheral_list) THEN W
  ELSE LET a == W.peripheral_list[i]
       IN StopDevices(
            IF W.dev[a].connectionState # STATE_STANDBY /\ W.dev[a].connection_handle # None
            THEN SetState([W EXCEPT !.rlink[a] = NoLink, !.rproc[a] = NoProc],
                          a, STATE_STANDBY)
            ELSE W, i + 1)

\* an exception leaves Stop() through its except clause, before ser.close()
Stop(W, fails) ==
  IF fails THEN CountFailure(W)
  ELSE [StopDevices(W, 1) EXCEPT !.bgCentralState = CENTRAL_STATE_STOPPING,
                                 !.ser.open = FALSE, !.ser.closed = TRUE]

\* the registry is emptied before the first command is sent; an exception
\* ends the sequence in its except clause
SendInitSequence(W, fails) ==
  LET W1 == [W EXCEPT !.peripheral_list = <<>>]
  IN IF fails THEN CountFailure([W1 EXCEPT !.pending_write = TRUE])
     ELSE [W1 EXCEPT !.pending_write = FALSE,
                     !.bgCentralState = CENTRAL_STATE_SCANNING,
                     !.ser.init = TRUE]

\* the port is closed, opened again and emptied; the controller is
\* initialised when it answers
TestPort(W, found, fails) ==
  LET W1 == [W EXCEPT !.ser.open = FALSE, !.ser.closed = TRUE]
  IN IF found
     THEN SendInitSequence([W1 EXCEPT !.ser.open = TRUE, !.rxq = <<>>], fails)
     ELSE W1

RestartInputs == [stopFails : BOOLEAN, found : BOOLEAN, initFails : BOOLEAN]

\* the count is set to 0 with no restart following
RestartSerialKeepingCount(W, in) ==
  LET W1 == Stop([W EXCEPT !.ser.restarts = @ + 1], in.stopFails)
      W2 == [Start(W1) EXCEPT !.bgCentralState = CENTRAL_STATE_STANDBY]
  IN TestPort(W2, in.found, in.initFails)

\* first lines of Process() when serialFailures > MAX_SERIAL_FAILURES
RestartSerial(W, in) ==
  LET W1 == Stop([W EXCEPT !.serialFailures = 0, !.ser.restarts = @ + 1], in.stopFails)
      W2 == [Start(W1) EXCEPT !.bgCentralState = CENTRAL_STATE_STANDBY]
  IN TestPort(W2, in.found, in.initFails)

\* RemoveDevice(bleAddress)
RemoveDevice(W, a) ==
  [W EXCEPT !.peripheral_list = SelectSeq(@, LAMBDA b : b # a)]

(***************************************************************************)
(* Encrypted frames.  AES-CCM is a library; it is modelled as a stream     *)
(* cipher on bytes with a tag that is a function of key, nonce and clear   *)
(* text.  A nonce is the pair of source address and sequence number.       *)
(***************************************************************************)
KeyStream(key, nonce) == (key + nonce[1] + nonce[2]) % BYTE

AesCcmEncrypt(key, nonce, inData) ==
  [out |-> (inData + KeyStream(key, nonce)) % BYTE, mic |-> <<key, nonce, inData>>]

AesCcmDecrypt(key, nonce, inData, mac) ==
  LET outData == (inData + BYTE - KeyStream(key, nonce)) % BYTE
  IN [out |-> outData, isValid |-> (mac = <<key, nonce, outData>>)]

\* the header (source address, sequence number) under the header key, its
\* nonce taken from the encrypted payload; this step is not authenticated
HeaderCrypt(headerKey, ct, header, sign) ==
  [i \in 1..2 |-> (header[i] + BYTE + sign * ((headerKey + ct) % BYTE)) % BYTE]

PartialId(id) == id % (XBX_NETWORK_ID_PARTIAL_ID_MASK + 1)

\* XDecrypt without the second attempt
XDecryptRxKeyOnly(W, header, ct, mic) ==
  LET rxc == W.networkConfigs[selectedRxNetworkIndex]
      h   == HeaderCrypt(rxc.headerKey, ct, header, -1)
      r1  == AesCcmDecrypt(rxc.key, h, ct, mic)
  IN [header |-> h, data |-> r1.out, isValid |-> r1.isValid]

XDecrypt(W, header, ct, mic) ==
  LET rxc == W.networkConfigs[selectedRxNetworkIndex]
      txc == W.networkConfigs[selectedTxNetworkIndex]
      h   == HeaderCrypt(rxc.headerKey, ct, header, -1)
      r1  == AesCcmDecrypt(rxc.key, h, ct, mic)
      r2  == IF r1.isValid THEN r1 ELSE AesCcmDecrypt(txc.key, h, ct, mic)
  IN [header |-> h, data |-> r2.out, isValid |-> r2.isValid]

\* the frame a sender with these keys builds, as SetXBAssignedPacket does;
\* tamper changes the tag
SenderFrame(id, headerKey, key, src, sqn, payload, tamper) ==
  LET e == AesCcmEncrypt(key, <<src, sqn>>, payload)
  IN [id |-> id, hdr |-> HeaderCrypt(headerKey, e.out, <<src, sqn>>, 1), ct |-> e.out,
      mic |-> IF tamper THEN <<key, <<src, sqn>>, (payload + 1) % BYTE>> ELSE e.mic]

(***************************************************************************)
(* The same frame byte by byte.  The cipher of the library is a stream     *)
(* cipher here too: every byte of the text is shifted by a value that      *)
(* depends on the key, on every byte of the nonce and on the position, and *)
(* the tag of four bytes depends on key, nonce and clear text.             *)
(***************************************************************************)
RECURSIVE SumSeq(_)
SumSeq(s) == IF s = <<>> THEN 0 ELSE Head(s) + SumSeq(Tail(s))

\* ConvertIntToList(value, length): least significant byte first; what does
\* not fit stays in the last item
ConvertIntToList(value, length) ==
  [i \in 1..length |-> IF i = length THEN value \div (BYTE ^ (i - 1))
                                     ELSE (value \div (BYTE ^ (i - 1))) % BYTE]

\* chr and ord: a character is not the number it stands for
Chr(val) == [code |-> val]

Ord(c) == c.code

BytesToString(bytes) == [i \in 1..Len(bytes) |-> Chr(bytes[i])]

StringToBytes(str) == [i \in 1..Len(str) |-> Ord(str[i])]

\* the cipher object of the library: AES.new, update, encrypt, decrypt,
\* digest and verify.  text is the clear text the tag is computed over.
AesNew(key, nonce, mac_len) ==
  [key |-> key, nonce |-> nonce, mac_len |-> mac_len, aad |-> <<>>, text |-> <<>>]

CipherUpdate(cipher, str) == [cipher EXCEPT !.aad = @ \o str]

CipherShift(cipher) == cipher.key + SumSeq(StringToBytes(cipher.nonce))

CipherEncrypt(cipher, str) ==
  [cipher |-> [cipher EXCEPT !.text = str],
   out    |-> [i \in 1..Len(str) |-> Chr((Ord(str[i]) + CipherShift(cipher) + i) % BYTE)]]

CipherDecrypt(cipher, str) ==
  LET out == [i \in 1..Len(str) |->
                Chr((Ord(str[i]) + BYTE * BYTE * NONCE_LENGTH - CipherShift(cipher) - i) % BYTE)]
  IN [cipher |-> [cipher EXCEPT !.text = out], out |-> out]

CipherDigest(cipher) ==
  [j \in 1..cipher.mac_len |->
     Chr((CipherShift(cipher) + SumSeq(StringToBytes(cipher.aad))
            + SumSeq(StringToBytes(cipher.text)) + j) % BYTE)]

CipherVerify(cipher, str) == str = CipherDigest(cipher)

AesCcmEncryptBytes(key, nonce, inData) ==
  LET cipher == CipherUpdate(AesNew(key, BytesToString(nonce), 4), BytesToString(<<1>>))
      e      == CipherEncrypt(cipher, BytesToString(inData))
  IN [out |-> StringToBytes(e.out), mic |-> StringToBytes(CipherDigest(e.cipher))]

\* no additional data is given to the cipher before it decrypts
AesCcmDecryptBytesNoUpdate(key, nonce, inData, mac) ==
  LET cipher == AesNew(key, BytesToString(nonce), 4)
      d      == CipherDecrypt(cipher, BytesToString(inData))
  IN [outData |-> StringToBytes(d.out),
      isValid |-> CipherVerify(d.cipher, BytesToString(mac))]

AesCcmDecryptBytes(key, nonce, inData, mac) ==
  LET cipher == CipherUpdate(AesNew(key, BytesToString(nonce), 4), BytesToString(<<1>>))
      d      == CipherDecrypt(cipher, BytesToString(inData))
  IN [outData |-> StringToBytes(d.out),
      isValid |-> CipherVerify(d.cipher, BytesToString(mac))]

\* the loop that copies payloadAndMic into the nonce of the header
RECURSIVE FillNonce(_, _, _)
FillNonce(headerNonce, payloadAndMic, i) ==
  IF i > Min({NONCE_LENGTH, Len(payloadAndMic)}) THEN headerNonce
  ELSE FillNonce([headerNonce EXCEPT ![i] = payloadAndMic[i]], payloadAndMic, i + 1)

\* the nonce is filled from the second byte of payloadAndMic on
HeaderNonceFromSecondByte(payloadAndMic) ==
  FillNonce([i \in 1..NONCE_LENGTH |-> 0], Tail(payloadAndMic), 1)

HeaderNonce(payloadAndMic) ==
  FillNonce([i \in 1..NONCE_LENGTH |-> 0], payloadAndMic, 1)

\* the payload is encrypted under the application key; the nonce holds the
\* source address and the sequence number
EncryptPayload(W) ==
  LET c        == W.networkConfigs[selectedTxNetworkIndex]
      aesNonce == ConvertIntToList(bleLocalDeviceId, XBX_SOURCE_ADDR_LENGTH)
                    \o ConvertIntToList(c.txSqn, XBX_SEQUENCE_ID_LENGTH)
                    \o [i \in 1..(NONCE_LENGTH - XBX_SOURCE_ADDR_LENGTH
                                     - XBX_SEQUENCE_ID_LENGTH) |-> 0]
      e        == AesCcmEncryptBytes(c.key, aesNonce, W.xb.payload)
  IN [W EXCEPT !.xb.eMsg = e.out, !.xb.eMic = e.mic,
               !.xb.steps = Append(@, "payload"), !.xb.pc = "payload"]

\* the header is encrypted under the header key
EncryptHeader(W) ==
  LET c           == W.networkConfigs[selectedTxNetworkIndex]
      header      == ConvertIntToList(bleLocalDeviceId, XBX_SOURCE_ADDR_LENGTH)
                       \o ConvertIntToList(c.txSqn, XBX_SEQUENCE_ID_LENGTH)
                       \o [i \in 1..XBX_RFU_LENGTH |-> 0]
      headerNonce == HeaderNonce(W.xb.eMsg \o W.xb.eMic)
      e           == AesCcmEncryptBytes(c.headerKey, headerNonce, header)
  IN [W EXCEPT !.xb.header = header, !.xb.headerNonce = headerNonce,
               !.xb.encHeader = e.out,
               !.xb.steps = Append(@, "header"), !.xb.pc = "header"]

\* SetXBAssignedPacket up to the frame: encrypted, the destination takes
\* encrypted advertisements; payload, type and destination included
XbAssignedPacket(W, encrypted, payload) ==
  LET W1 == [W EXCEPT !.networkConfigs[selectedTxNetworkIndex].txSqn = NextSqn(@),
                      !.xb = [NoXb EXCEPT !.n = W.xb.n + 1, !.payload = payload,
                                          !.encrypted = encrypted]]
      c  == W1.networkConfigs[selectedTxNetworkIndex]
      W2 == [W1 EXCEPT !.xb.sqn = c.txSqn]
  IN IF encrypted /\ c.key # NETWORK_KEY_NONE
     THEN LET W3 == EncryptHeader(EncryptPayload(W2))
          IN [W3 EXCEPT !.xb.frame =
                <<XB_TYPE_ENCRYPTED_FLAG + PartialId(c.id)>>
                  \o W3.xb.encHeader \o W3.xb.eMsg \o W3.xb.eMic]
     ELSE [W2 EXCEPT !.xb.encrypted = FALSE,
                     !.xb.frame =
                <<XB_TYPE_UNENCRYPTED>>
                  \o ConvertIntToList(bleLocalDeviceId, XBX_SOURCE_ADDR_LENGTH)
                  \o ConvertIntToList(c.txSqn, XBX_SEQUENCE_ID_LENGTH)
                  \o <<XBX_RFU_VALUE>> \o payload]

\* registry, devices and configurations: what a frame may change
Snapshot(W) ==
  [peripheral_list |-> W.peripheral_list, dev |-> W.dev, networkConfigs |-> W.networkConfigs]

(***************************************************************************)
(* Advertisements.  Of a legacy packet only what the connection logic      *)
(* reads is kept: the address registers the device and the packet type     *)
(* sets bootloaderMode.                                                    *)
(***************************************************************************)
\* a legacy (V0) packet: m.x tells a bootloader packet from a status packet
LegacyPacket(W, m) ==
  IF m.a \in Registered(W)
  THEN [W EXCEPT !.dev[m.a].bootloaderMode = m.x]
  ELSE [W EXCEPT !.peripheral_list = Append(@, m.a),
                 !.dev[m.a] = [BleDevice EXCEPT !.bootloaderMode = m.x]]

\* a packet with the encrypted flag: m.x is the frame [id, hdr, ct, mic]
EncryptedPacket(W, m) ==
  LET f  == m.x
      W0 == [W EXCEPT !.rx.accepted = FALSE]
  IN IF PartialId(f.id) = PartialId(W.networkConfigs[selectedRxNetworkIndex].id)
     THEN LET d == XDecrypt(W0, f.hdr, f.ct, f.mic)
          IN IF d.isValid
             THEN LET rxSqnTemp == d.header[2]
                      W1 == [W0 EXCEPT !.rx.accepted = TRUE,
                               !.networkConfigs[selectedRxNetworkIndex].txSqn =
                                   IF rxSqnTemp > @ THEN rxSqnTemp ELSE @]
                      W2 == IF m.a \notin Registered(W1)
                               /\ d.data \in {ENCRYPTED_PACKET_TYPE_XB1,
                                              ENCRYPTED_PACKET_TYPE_XB2,
                                              ENCRYPTED_PACKET_TYPE_XGROUP}
                            THEN [W1 EXCEPT !.peripheral_list = Append(@, m.a),
                                            !.dev[m.a] = BleDevice]
                            ELSE W1
                  IN IF m.a \in Registered(W2)
                     THEN [W2 EXCEPT !.dev[m.a].encryptedAdv = TRUE,
                                     !.dev[m.a].scannedDeviceId = d.header[1]]
                     ELSE W2
             ELSE W0
     ELSE W0

\* a packet with the company id whose type bytes and length fit no packet
\* the handler knows; m.x: the type bytes are those of a XIM packet (the
\* length is then the one that does not fit)
OtherPacket(W, m) ==
  LET W1 == IF m.a \notin Registered(W) /\ m.x
            THEN [W EXCEPT !.peripheral_list = Append(@, m.a), !.dev[m.a] = BleDevice]
            ELSE W
  IN IF m.a \in Registered(W1)
     THEN [W1 EXCEPT !.dev[m.a].bootloaderMode = FALSE]
     ELSE W1

\* m.r: 0 a legacy packet, 1 a packet with the encrypted flag, 2 a packet of
\* no known type or length, 3 manufacturer data of another company.  An
\* advertisement of a device ends its run of failed attempts.
my_ble_evt_gap_scan_response(W, m) ==
  LET W1 == [W EXCEPT !.att.fails[m.a] = 0]
  IN IF m.r = 1 THEN EncryptedPacket(W1, m)
     ELSE IF m.r = 0 THEN LegacyPacket(W1, m)
     ELSE IF m.r = 2 THEN OtherPacket(W1, m)
     ELSE W

(***************************************************************************)
(* Group tables.  A group field is the list of bytes that follows the      *)
(* payload type: a header byte (offset, last-packet flag) and two bytes    *)
(* per group, low byte first.                                              *)
(***************************************************************************)
ConvertListToInt(thisList) ==
  IF Len(thisList) = 0 THEN 0
  ELSE IF Len(thisList) = 1 THEN thisList[1]
  ELSE thisList[1] + thisList[2] * BYTE

\* [x] * n of the code: empty when n is not positive
Repeat(x, n) == [i \in 1..(IF n > 0 THEN n ELSE 0) |-> x]

\* thisList[:n]
Prefix(thisList, n) == SubSeq(thisList, 1, IF n < Len(thisList) THEN n ELSE Len(thisList))

\* thisList[n:] = tail
SliceAssign(thisList, n, tail) == Prefix(thisList, n) \o tail

\* the group written to slot j (from 0) by the field, for a slot the field covers
FieldMember(this_field, groupOffset, j) ==
  LET first == XBGROUP_MEMBERS_OFFSET + (j - groupOffset) * GROUP_MEMBER_LENGTH
  IN ConvertListToInt(SubSeq(this_field, first + 1, first + GROUP_MEMBER_LENGTH))

\* ProcessXBeaconGroupFields with the completeness flag set by every last packet
ProcessXBeaconGroupFieldsAlwaysComplete(W, a, this_field) ==
  LET header       == this_field[XBGROUP_HEADER_OFFSET + 1]
      groupOffset  == header % XGROUP_LAST_PACKET_FLAG
      numAdvGroups == (Len(this_field) - XBGROUP_HEADER_LENGTH) \div GROUP_MEMBER_LENGTH
      last         == (header \div XGROUP_LAST_PACKET_FLAG) % 2 = 1
      g0 == W.dev[a].groups
      g1 == [j \in 1..Len(g0) |->
               IF j - 1 >= groupOffset /\ j - 1 < groupOffset + numAdvGroups
               THEN FieldMember(this_field, groupOffset, j - 1) ELSE g0[j]]
      g2 == IF last
            THEN SliceAssign(g1, groupOffset + numAdvGroups,
                             Repeat(GROUP_MEMBER_UNASSIGNED,
                                    NUM_GROUPS - (groupOffset + numAdvGroups)))
            ELSE g1
  IN [W EXCEPT !.dev[a].bootloaderMode = FALSE,
               !.dev[a].requestGroupAttempts = 0,
               !.dev[a].groups = g2,
               !.dev[a].receivedAllGroups = IF last THEN TRUE ELSE @]

\* ProcessXBeaconGroupFields without the fill of the trailing slots
ProcessXBeaconGroupFieldsNoFill(W, a, this_field) ==
  LET header       == this_field[XBGROUP_HEADER_OFFSET + 1]
      groupOffset  == header % XGROUP_LAST_PACKET_FLAG
      numAdvGroups == (Len(this_field) - XBGROUP_HEADER_LENGTH) \div GROUP_MEMBER_LENGTH
      last         == (header \div XGROUP_LAST_PACKET_FLAG) % 2 = 1
      g0 == W.dev[a].groups
      g1 == [j \in 1..Len(g0) |->
               IF j - 1 >= groupOffset /\ j - 1 < groupOffset + numAdvGroups
               THEN FieldMember(this_field, groupOffset, j - 1) ELSE g0[j]]
      g2 == g1
      head == Prefix(g2, groupOffset + numAdvGroups)
  IN [W EXCEPT !.dev[a].bootloaderMode = FALSE,
               !.dev[a].requestGroupAttempts = 0,
               !.dev[a].groups = g2,
               !.dev[a].receivedAllGroups =
                   IF last THEN \A j \in 1..Len(head) : head[j] # None ELSE @]

ProcessXBeaconGroupFields(W, a, this_field) ==
  LET header       == this_field[XBGROUP_HEADER_OFFSET + 1]
      groupOffset  == header % XGROUP_LAST_PACKET_FLAG
      numAdvGroups == (Len(this_field) - XBGROUP_HEADER_LENGTH) \div GROUP_MEMBER_LENGTH
      last         == (header \div XGROUP_LAST_PACKET_FLAG) % 2 = 1
      g0 == W.dev[a].groups
      g1 == [j \in 1..Len(g0) |->
               IF j - 1 >= groupOffset /\ j - 1 < groupOffset + numAdvGroups
               THEN FieldMember(this_field, groupOffset, j - 1) ELSE g0[j]]
      g2 == IF last
            THEN SliceAssign(g1, groupOffset + numAdvGroups,
                             Repeat(GROUP_MEMBER_UNASSIGNED,
                                    NUM_GROUPS - (groupOffset + numAdvGroups)))
            ELSE g1
      head == Prefix(g2, groupOffset + numAdvGroups)
  IN [W EXCEPT !.dev[a].bootloaderMode = FALSE,
               !.dev[a].requestGroupAttempts = 0,
               !.dev[a].groups = g2,
               !.dev[a].receivedAllGroups =
                   IF last THEN \A j \in 1..Len(head) : head[j] # None ELSE @]

\* the groups of the list that are assigned, in order
Assigned(groupList) ==
  LET keep[i \in 0..Len(groupList)] ==
        IF i = 0 THEN <<>>
        ELSE IF groupList[i] # GROUP_MEMBER_UNASSIGNED THEN Append(keep[i - 1], groupList[i])
        ELSE keep[i - 1]
  IN keep[Len(groupList)]

\* the payload of an accepted frame, by its type; of the status and other
\* payloads nothing is kept here
ProcessXBPacket(W, a, payload) ==
  IF payload[1] = ENCRYPTED_PACKET_TYPE_XGROUP
  THEN ProcessXBeaconGroupFields(W, a, Tail(payload))
  ELSE W

UpdateGroupMembership(W, a, groupList) ==
  [W EXCEPT !.dev[a].groups = Assigned(groupList),
            !.dev[a].receivedAllGroups = TRUE]

\* the request is handed to SetXBPacket and goes on the air; what that does
\* to the sequence counter is the subject of SetXBAssignedPacket
BroadcastRequestAdv(W, destination) == W

\* the condition under which PollForGroupMembership sends a request to a
\* device; every registered device of the model is a XIM
PollCondition(W, a) ==
  /\ W.dev[a].scannedDeviceId # None
  /\ ~W.dev[a].receivedAllGroups
  /\ ~W.dev[a].bootloaderMode
  /\ \/ W.dev[a].requestGroupAttempts < MAX_GROUP_REQUESTS
     \/ W.dev[a].sinceGroupRequest > GROUP_REQUEST_RETRY_INTERVAL

PollForGroupMembership(W) ==
  LET n     == Len(W.peripheral_list)
      start == IF W.groupPollingIndex >= n THEN 0 ELSE W.groupPollingIndex
      found == {i \in start..(n - 1) : PollCondition(W, W.peripheral_list[i + 1])}
  IN IF found = {} THEN [W EXCEPT !.groupPollingIndex = n]
     ELSE LET i == Min(found)
              a == W.peripheral_list[i + 1]
              W1 == [W EXCEPT !.groupPollingIndex = i,
                              !.dev[a].requestGroupAttempts =
                                  IF @ >= MAX_GROUP_REQUESTS THEN 0 ELSE @]
          IN [BroadcastRequestAdv(W1, W1.dev[a].scannedDeviceId) EXCEPT
                !.dev[a].requestGroupAttempts = @ + 1,
                !.dev[a].sinceGroupRequest = 0]

\* the device PollForGroupMembership sends a request to, NoDev when it
\* returns False
Polled(W) ==
  LET n     == Len(W.peripheral_list)
      start == IF W.groupPollingIndex >= n THEN 0 ELSE W.groupPollingIndex
      found == {i \in start..(n - 1) : PollCondition(W, W.peripheral_list[i + 1])}
  IN IF found = {} THEN NoDev ELSE W.peripheral_list[Min(found) + 1]

\* time.time() has advanced by d seconds
Elapsed(W, d) ==
  [W EXCEPT !.dev = [a \in Addr |->
      [W.dev[a] EXCEPT !.sinceGroupRequest =
          IF @ + d > GROUP_REQUEST_RETRY_INTERVAL
          THEN GROUP_REQUEST_RETRY_INTERVAL + 1 ELSE @ + d]]]

\* no group segment yet; hist is the list of segments a device's table was
\* built from since the device was created, Untracked when it is not known
Untracked == <<[off |-> None, n |-> 0, last |-> FALSE, gen |-> 0]>>

NoGrp ==
  [n |-> 0, hist |-> [a \in Addr |-> <<>>],
   ev |-> [a |-> NoDev, kind |-> "none", before |-> FALSE, end |-> 0, last |-> FALSE]]

\* no request yet; elig is the set of devices that were incomplete and under
\* the retry ceiling when the latest request was sent
NoPoll == [a |-> NoDev, elig |-> {}, again |-> FALSE, early |-> FALSE]

\* no connection attempt yet
NoAtt == [fails |-> [a \in Addr |-> 0], abandoned |-> {}, started |-> {}]

(***************************************************************************)
(* Remote devices and the cache file the engine starts with.               *)
(***************************************************************************)
\* chars: the characteristics the device reports in find_information; a
\* bootloader device reports its command characteristic, and the
\* client-configuration descriptor of it when "blsccc" is listed
Peer(v, cs, b) == [ver |-> v, chars |-> cs, boot |-> b]

NoRx ==
  [n |-> 0, frame |-> SenderFrame(0, 0, 0, 0, 0, 0, FALSE), accepted |-> FALSE,
   before |-> [peripheral_list |-> <<>>, dev |-> [a \in Addr |-> BleDevice],
               networkConfigs |-> GetNetworkInfoFromFile(<<>>)],
   after |-> [peripheral_list |-> <<>>, dev |-> [a \in Addr |-> BleDevice],
              networkConfigs |-> GetNetworkInfoFromFile(<<>>)]]

\* no network configured: the file Start() writes when there is none
InitNetwork ==
  /\ networkConfigs = GetNetworkInfoFromFile(<<>>)
  /\ netFile = FileLines(GetNetworkInfoFromFile(<<>>))
  /\ seq = NoSeq
  /\ rx = NoRx

\* what is the same in every initial state: nothing registered, radio idle
InitEngine ==
  /\ peripheral_list = <<>>
  /\ dev = [a \in Addr |-> BleDevice]
  /\ pending_write = FALSE
  /\ bgCentralState = CENTRAL_STATE_STANDBY
  /\ bgPeriphState = PERIPH_STATE_STANDBY
  /\ stk = <<>>
  /\ lastTrans = {}
  /\ rlink = [a \in Addr |-> NoLink]
  /\ rproc = [a \in Addr |-> NoProc]
  /\ rxq = <<>>
  /\ tx = NoTx
  /\ groupPollingIndex = 0
  /\ grp = NoGrp
  /\ poll = NoPoll
  /\ att = NoAtt
  /\ mapFile = WholeMap
  /\ serialFailures = 0
  /\ ser = NoSer
  /\ gw = NoGw
  /\ xb = NoXb
  /\ call = NoCall
  /\ nApi = 0
  /\ nLoss = 0

InitCommon == InitEngine /\ InitNetwork

DefaultPeer == Peer(60, {"ud", "s1"}, FALSE)

\* the installations the engine is started in
Installations ==
  {[peer |-> Peer(60, {"ud", "s1"}, FALSE), cache |-> {}],
   [peer |-> Peer(75, {"ud", "s1", "gm"}, FALSE), cache |-> {Line(75, {"ud", "s1"})}],
   [peer |-> Peer(75, {"ud", "s1"}, FALSE), cache |-> {}],
   [peer |-> Peer(60, {"blsccc"}, TRUE), cache |-> {}],
   [peer |-> Peer(60, {}, TRUE), cache |-> {}]}

Init ==
  /\ InitCommon
  /\ \E i \in Installations :
       /\ peer = [a \in Addr |-> IF a = 1 THEN i.peer ELSE DefaultPeer]
       /\ cacheFile = i.cache

Env == UNCHANGED <<peer, nApi, nLoss>>

(***************************************************************************)
(* Steps of the radio and of the remote devices.                           *)
(***************************************************************************)
Advertise(a) ==
  /\ a \notin Registered(World)
  /\ rxq = <<>>
  /\ LoopCondition(World)
  /\ Apply(my_ble_evt_gap_scan_response(MarkPolled(World),
              Msg("evt_gap_scan_response", None, a, 0, peer[a].boot, 0)))
  /\ Env

RadioConnected(a) ==
  /\ rlink[a].st = "pending"
  /\ LET h  == Min(Handles \ UsedHandles(World))
         W1 == [World EXCEPT !.rlink[a] = [st |-> "up", h |-> h, enc |-> "no"]]
     IN Apply(Enq(W1, <<Msg("evt_connection_status", h, a,
                            FLAG_CONNECTED + FLAG_COMPLETED, 0, 0)>>))
  /\ Env

RadioEncrypted(a) ==
  /\ rlink[a].st = "up"
  /\ rlink[a].enc = "starting"
  /\ LET W1 == [World EXCEPT !.rlink[a].enc = "yes"]
     IN Apply(Enq(W1, <<ConnStatus(W1, a)>>))
  /\ Env

RadioBondingFail(a, r) ==
  /\ rlink[a].st = "up"
  /\ rlink[a].enc = "starting"
  /\ Apply(Enq([World EXCEPT !.rlink[a].enc = "no"],
               <<Msg("evt_sm_bonding_fail", rlink[a].h, a, r, 0, 0)>>))
  /\ Env

\* the events a finished attribute-client procedure produces
ProcedureEvents(a, r) ==
  LET h == rlink[a].h
      k == rproc[a].kind
      done == <<Msg("evt_attclient_procedure_completed", h, a, r, 0, 1)>>
  IN CASE k = "read_by_type" ->
            (IF peer[a].boot THEN <<>>
             ELSE <<Msg("evt_attclient_attribute_value", h, a, 0, peer[a].ver, 0)>>) \o done
       [] k = "read_by_group_type" ->
            (IF peer[a].boot
             THEN <<Msg("evt_attclient_group_found", h, a, 0, BlSvc, 0)>>
             ELSE <<Msg("evt_attclient_group_found", h, a, 0, 1, 0),
                    Msg("evt_attclient_group_found", h, a, 0, 2, 0)>>) \o done
       [] k = "find_information" ->
            (IF rproc[a].x = BlSvc
             THEN <<Msg("evt_attclient_find_information_found", h, a, 0, "bls", 0)>> \o
                  (IF "blsccc" \in peer[a].chars
                   THEN <<Msg("evt_attclient_find_information_found", h, a, 0, "blsccc", 0)>>
                   ELSE <<>>)
             ELSE IF rproc[a].x = 1
             THEN <<Msg("evt_attclient_find_information_found", h, a, 0, "ud", 0)>>
             ELSE (IF "s1" \in peer[a].chars
                   THEN <<Msg("evt_attclient_find_information_found", h, a, 0, "s1", 0)>>
                   ELSE <<>>) \o
                  (IF "gm" \in peer[a].chars
                   THEN <<Msg("evt_attclient_find_information_found", h, a, 0, "gm", 0)>>
                   ELSE <<>>)) \o done
       [] OTHER -> done

RadioProcedureCompleted(a, r) ==
  /\ rlink[a].st = "up"
  /\ rproc[a].kind # "idle"
  /\ r = RESULT_OK \/ rproc[a].kind \in WriteKinds
  /\ Apply(Enq([World EXCEPT !.rproc[a] = NoProc,
                              !.tx.acked = IF /\ rproc[a].kind \in WriteKinds
                                              /\ r = RESULT_OK
                                              /\ tx.kind # "none"
                                              /\ rproc[a].x = tx.op
                                           THEN @ + 1 ELSE @],
               ProcedureEvents(a, r)))
  /\ Env

Disconnected(W, a) ==
  Enq([W EXCEPT !.rlink[a] = NoLink, !.rproc[a] = NoProc],
      <<Msg("evt_connection_disconnected", W.rlink[a].h, a, 520, 0,
            IF W.rproc[a].kind = "idle" THEN 0 ELSE 1)>>)

RadioLinkLoss(a, max) ==
  /\ rlink[a].st = "up"
  /\ nLoss < max
  /\ Apply(Disconnected(World, a))
  /\ nLoss' = nLoss + 1
  /\ UNCHANGED <<peer, nApi>>

RadioClosed(a) ==
  /\ rlink[a].st = "closing"
  /\ Apply(Disconnected(World, a))
  /\ Env

(***************************************************************************)
(* Steps of the host.  CheckActivity parses every packet the controller    *)
(* has produced before the rest of Process() or a loop's time limit is     *)
(* looked at: the serial line is fast, the remote operations are not.      *)
(***************************************************************************)
CheckActivity ==
  /\ rxq # <<>>
  /\ LoopCondition(World)
  /\ LET m == Head(rxq)
     IN Apply(Handle(MarkPolled([World EXCEPT !.rxq = Tail(@)]), m))
  /\ Env

ProcessStep(to) ==
  /\ rxq = <<>>
  /\ Top(World).fn \in ProcessLoops
  /\ LoopCondition(World) \/ Top(World).polled
  /\ \E in \in IF serialFailures > MAX_SERIAL_FAILURES
                THEN RestartInputs
                ELSE {CHOOSE i \in RestartInputs : TRUE} :
       LET f  == Top(World)
           W0 == IF serialFailures > MAX_SERIAL_FAILURES
                 THEN RestartSerial(ClearPolled(World), in)
                 ELSE ClearPolled(World)
           W1 == Process(W0, to)
       IN Apply(IF f.fn = "Connect" THEN ConnectBody(W1, f.a) ELSE W1)
  /\ Env

\* the loops whose time limit is counted
TimedLoops == {"WriteWait", "ChunkWait", "CommitWait"}

\* a second goes by in a wait loop of TransmitPacket
Tick ==
  /\ rxq = <<>>
  /\ Top(World).fn \in TimedLoops
  /\ LoopCondition(World)
  /\ Apply([World EXCEPT !.stk[1].t = @ + 1])
  /\ Env

LeaveLoop ==
  /\ stk # <<>>
  /\ ~Head(stk).polled
  /\ rxq = <<>> \/ ~LoopCondition(World)
  /\ Head(stk).fn \in TimedLoops => ~LoopCondition(World)
  /\ Apply(AfterLoop(Pop(World), Head(stk)))
  /\ Env

ApiConnect(a, tmo, max) ==
  /\ stk = <<>>
  /\ nApi < max
  /\ a \in Registered(World)
  /\ Apply(Connect(World, a, tmo))
  /\ nApi' = nApi + 1
  /\ UNCHANGED <<peer, nLoss>>

ApiTransmitPacket(a, len, c) ==
  /\ stk = <<>>
  /\ tx.op < MaxTxCalls
  /\ a \in Registered(World)
  /\ Apply(TransmitPacket(World, a, len, c, TRANSMIT_TIMEOUT_DEFAULT))
  /\ Env

ApiDisconnect(a) ==
  /\ stk = <<>>
  /\ nApi < MaxApiCalls
  /\ a \in Registered(World)
  /\ Apply(Disconnect(World, a))
  /\ nApi' = nApi + 1
  /\ UNCHANGED <<peer, nLoss>>

\* the connection machine of one device: calls, link losses, every timer
Next ==
  \/ Advertise(1)
  \/ \E a \in Addr : RadioConnected(a)
  \/ \E a \in Addr : RadioEncrypted(a)
  \/ \E a \in Addr, r \in {RESULT_PAIRING_NOT_SUPPORTED, RESULT_ERROR} : RadioBondingFail(a, r)
  \/ \E a \in Addr, r \in {RESULT_OK, RESULT_ERROR} : RadioProcedureCompleted(a, r)
  \/ \E a \in Addr : RadioLinkLoss(a, MaxLinkLoss)
  \/ \E a \in Addr : RadioClosed(a)
  \/ CheckActivity
  \/ \E to \in SUBSET Timers : ProcessStep(to)
  \/ LeaveLoop
  \/ \E a \in Addr, tmo \in BOOLEAN : ApiConnect(a, tmo, MaxApiCalls)
  \/ \E a \in Addr : ApiDisconnect(a)

Spec == Init /\ [][Next]_vars

\* two devices and the calls of the collaborator, links that do not drop
InitTwo ==
  /\ InitCommon
  /\ peer = [a \in Addr |-> DefaultPeer]
  /\ cacheFile = {}

NextTwo ==
  \/ \E a \in Addr : Advertise(a)
  \/ \E a \in Addr : RadioConnected(a)
  \/ \E a \in Addr : RadioEncrypted(a)
  \/ \E a \in Addr, r \in {RESULT_PAIRING_NOT_SUPPORTED, RESULT_ERROR} : RadioBondingFail(a, r)
  \/ \E a \in Addr, r \in {RESULT_OK, RESULT_ERROR} : RadioProcedureCompleted(a, r)
  \/ \E a \in Addr : RadioClosed(a)
  \/ CheckActivity
  \/ \E to \in SUBSET Timers : ProcessStep(to)
  \/ LeaveLoop
  \/ \E a \in Addr, tmo \in BOOLEAN : ApiConnect(a, tmo, MaxApiCalls)
  \/ \E a \in Addr : ApiDisconnect(a)

SpecTwo == InitTwo /\ [][NextTwo]_vars

\* one device that is connected once and whose link keeps dropping
NextLoss ==
  \/ Advertise(1)
  \/ \E a \in Addr : RadioConnected(a)
  \/ \E a \in Addr : RadioEncrypted(a)
  \/ \E a \in Addr, r \in {RESULT_PAIRING_NOT_SUPPORTED, RESULT_ERROR} : RadioBondingFail(a, r)
  \/ \E a \in Addr, r \in {RESULT_OK, RESULT_ERROR} : RadioProcedureCompleted(a, r)
  \/ \E a \in Addr : RadioLinkLoss(a, MaxConsecutiveLoss)
  \/ CheckActivity
  \/ \E to \in SUBSET Timers : ProcessStep(to)
  \/ LeaveLoop
  \/ \E a \in Addr : ApiConnect(a, FALSE, 1)

SpecLoss == InitTwo /\ [][NextLoss]_vars

(***************************************************************************)
(* Attribute writes to a device that is connected and in ListeningData:    *)
(* the state the engine is in after the connection of SpecTwo completed.   *)
(***************************************************************************)
PacketLens == {20, 30}

ConnectedDevice ==
  [BleDevice EXCEPT !.connectionState = STATE_LISTENING_DATA, !.connection_handle = 0,
                    !.connectionSent = TRUE, !.swVersion = 60,
                    !.attributeList = {"ud", "s1"}, !.handles = {"ud", "s1"},
                    !.serviceList = {1, 2}, !.att_handle_end = {1, 2},
                    !.attributesDiscovered =
                        [s \in Svc |-> IF s = 1 THEN SERVICE_ATTRIBUTES_FOUND
                                       ELSE SERVICE_ATTRIBUTES_FINDING]]

InitTx ==
  /\ peripheral_list = <<1>>
  /\ dev = [a \in Addr |-> IF a = 1 THEN ConnectedDevice ELSE BleDevice]
  /\ pending_write = FALSE
  /\ bgCentralState = CENTRAL_STATE_SCANNING
  /\ bgPeriphState = PERIPH_STATE_STANDBY
  /\ cacheFile = {Line(60, {"ud", "s1"})}
  /\ stk = <<>>
  /\ lastTrans = {}
  /\ rlink = [a \in Addr |-> IF a = 1 THEN [st |-> "up", h |-> 0, enc |-> "yes"] ELSE NoLink]
  /\ rproc = [a \in Addr |-> NoProc]
  /\ rxq = <<>>
  /\ peer = [a \in Addr |-> DefaultPeer]
  /\ tx = NoTx
  /\ groupPollingIndex = 0
  /\ grp = NoGrp
  /\ poll = NoPoll
  /\ att = NoAtt
  /\ mapFile = WholeMap
  /\ serialFailures = 0
  /\ ser = NoSer
  /\ gw = NoGw
  /\ xb = NoXb
  /\ call = NoCall
  /\ InitNetwork
  /\ nApi = 0
  /\ nLoss = 0

NextTx ==
  \/ \E a \in Addr, len \in PacketLens, c \in {"s1", "gm"} : ApiTransmitPacket(a, len, c)
  \/ \E a \in Addr, r \in {RESULT_OK, RESULT_ERROR} : RadioProcedureCompleted(a, r)
  \/ Tick
  \/ CheckActivity
  \/ \E to \in SUBSET Timers : ProcessStep(to)
  \/ LeaveLoop

SpecTx == InitTx /\ [][NextTx]_vars

(***************************************************************************)
(* Outbound frames and the persistence of the sequence counter.  The       *)
(* process may die at any position and is then started again.              *)
(***************************************************************************)
SeqStarts == {0, 1, BYTE - 1, XBX_SEQUENCE_ID_MAX_VALUE - 2, XBX_SEQUENCE_ID_MAX_VALUE - 1}

InitSeq ==
  /\ InitEngine
  /\ peer = [a \in Addr |-> DefaultPeer]
  /\ cacheFile = {}
  /\ \E s \in SeqStarts :
       networkConfigs = <<NetworkConfig(1, 21, 11, s), NetworkConfig(2, 22, 12, 0)>>
  /\ netFile = FileLines(networkConfigs)
  /\ seq = NoSeq
  /\ rx = NoRx

IssueAssigned ==
  /\ seq.pc = "idle"
  /\ seq.n < MaxFrames
  /\ Apply(SetXBAssignedPacket(World))
  /\ Env

IssueBroadcast ==
  /\ seq.pc = "idle"
  /\ seq.n < MaxFrames
  /\ Apply(BroadcastCommand(World))
  /\ Env

FileOpen ==
  /\ seq.pc = "sent"
  /\ Apply(OpenConfigFile(World))
  /\ Env

FileWrite ==
  /\ seq.pc = "open"
  /\ Apply(WriteConfigFile(World))
  /\ Env

CrashRestart ==
  /\ seq.crashes < MaxCrashes
  /\ Apply(Start(World))
  /\ Env

NextSeq ==
  \/ IssueAssigned
  \/ IssueBroadcast
  \/ FileOpen
  \/ FileWrite
  \/ CrashRestart

SpecSeq == InitSeq /\ [][NextSeq]_vars

(***************************************************************************)
(* The keys and nonces of payload encryptions within one run, while the    *)
(* local network configuration is set again and admin mode is switched.    *)
(* The sequence counter is a field of each configuration; the key is the   *)
(* admin key in admin mode and the key of the selected configuration       *)
(* otherwise.                                                              *)
(***************************************************************************)
adminKey == 0

\* one pass of the loop over NETWORK_TX and NETWORK_RX: s.matchFound and
\* s.newIndex are the locals, which the second pass finds as the first left
\* them
SelectNetwork(s, networkId, networkHeaderKey, testKey) ==
  LET hits == {i \in 1..Len(s.cfgs) :
                 s.cfgs[i].id = networkId /\ s.cfgs[i].key = testKey}
  IN IF hits # {}
     THEN [cfgs |-> [s.cfgs EXCEPT ![Min(hits)].headerKey = networkHeaderKey],
           matchFound |-> TRUE, newIndex |-> Min(hits)]
     ELSE IF s.matchFound = FALSE
          THEN [cfgs |-> Append(s.cfgs, NetworkConfig(networkId, networkHeaderKey, testKey, 0)),
                matchFound |-> FALSE, newIndex |-> Len(s.cfgs) + 1]
          ELSE s

SetLocalNetworkConfiguration(W, networkId, networkHeaderKey, txKey, rxKey) ==
  LET s0 == [cfgs |-> W.networkConfigs, matchFound |-> FALSE, newIndex |-> None]
      s1 == SelectNetwork(s0, networkId, networkHeaderKey, txKey)
      s2 == SelectNetwork(s1, networkId, networkHeaderKey, rxKey)
  IN UpdateNetworkConfigFile(
       [W EXCEPT !.networkConfigs = s2.cfgs,
                 !.seq.selectedTx = s1.newIndex,
                 !.seq.selectedRx = s2.newIndex])

SetAdminMode(W, value) == [W EXCEPT !.seq.adminMode = value]

ApplicationKey(W) ==
  IF W.seq.adminMode THEN adminKey ELSE W.networkConfigs[W.seq.selectedTx].key

\* SetXBAssignedPacket with the globals as they are now, up to and including
\* TransmitAdvertisement; encryptedAdv: a device of the destination takes
\* encrypted advertisements
SetXBAssignedPacketKeyed(W, encryptedAdv) ==
  LET t        == W.seq.selectedTx
      W1       == [W EXCEPT !.networkConfigs[t].txSqn = NextSqn(@)]
      c        == W1.networkConfigs[t]
      aesNonce == ConvertIntToList(bleLocalDeviceId, XBX_SOURCE_ADDR_LENGTH)
                    \o ConvertIntToList(c.txSqn, XBX_SEQUENCE_ID_LENGTH)
                    \o [i \in 1..(NONCE_LENGTH - XBX_SOURCE_ADDR_LENGTH
                                     - XBX_SEQUENCE_ID_LENGTH) |-> 0]
      W2       == IF /\ c.key # NETWORK_KEY_NONE /\ encryptedAdv
                     /\ (W.seq.adminMode \/ c.key # NETWORK_KEY_NONE)
                  THEN [W1 EXCEPT !.seq.nonces =
                          Append(@, [key |-> ApplicationKey(W1), nonce |-> aesNonce])]
                  ELSE W1
  IN TransmitAdvertisement(W2, c.txSqn, TRUE)

NetworkIds == {1, 3}
NetworkKeys == {11, 13}
MaxNetworks == 4

IssueKeyed ==
  /\ seq.pc = "idle"
  /\ seq.n < MaxFrames
  /\ \E encryptedAdv \in BOOLEAN : Apply(SetXBAssignedPacketKeyed(World, encryptedAdv))
  /\ Env

ApiSetLocalNetworkConfiguration ==
  /\ seq.pc = "idle"
  /\ \E networkId \in NetworkIds, txKey \in NetworkKeys, rxKey \in NetworkKeys :
       LET W == SetLocalNetworkConfiguration(World, networkId, 21, txKey, rxKey)
       IN /\ Len(W.networkConfigs) <= MaxNetworks
          /\ Apply(W)
  /\ Env

ApiSetAdminMode ==
  /\ seq.pc = "idle"
  /\ \E value \in BOOLEAN : Apply(SetAdminMode(World, value))
  /\ Env

NextNonce ==
  \/ IssueKeyed
  \/ FileOpen
  \/ FileWrite
  \/ ApiSetLocalNetworkConfiguration
  \/ ApiSetAdminMode

SpecNonce == InitSeq /\ [][NextNonce]_vars

\* C40: within a run no two payload encryptions use the same nonce under
\* the same application key, whatever was done to the local network
\* configuration and to admin mode in between
C40_NoNonceTwiceUnderOneKey ==
  \A i, j \in 1..Len(seq.nonces) : i # j => seq.nonces[i] # seq.nonces[j]

(***************************************************************************)
(* Inbound encrypted frames, from senders that hold the key and header key *)
(* of either slot or a foreign key.                                        *)
(***************************************************************************)
InitRx ==
  /\ InitEngine
  /\ peer = [a \in Addr |-> DefaultPeer]
  /\ cacheFile = {}
  /\ \E rid \in {2, 33} :
       networkConfigs = <<NetworkConfig(1, 21, 11, 5), NetworkConfig(rid, 22, 12, 5)>>
  /\ netFile = FileLines(networkConfigs)
  /\ seq = NoSeq
  /\ rx = NoRx

Frames ==
  {SenderFrame(id, hk, key, 7, sqn, p, t) :
     id \in {1, 2}, hk \in {21, 22}, key \in {11, 12, 13}, sqn \in {3, 9},
     p \in {ENCRYPTED_PACKET_TYPE_XB1, ENCRYPTED_PACKET_TYPE_LIGHT_CONTROL}, t \in BOOLEAN}

ReceiveEncrypted(a, f) ==
  /\ rx.n < MaxRxFrames
  /\ rxq = <<>>
  /\ LET W0 == [World EXCEPT !.rx.n = @ + 1, !.rx.frame = f, !.rx.before = Snapshot(World)]
         W1 == my_ble_evt_gap_scan_response(W0, Msg("evt_gap_scan_response", None, a, 1, f, 0))
     IN Apply([W1 EXCEPT !.rx.after = Snapshot(W1)])
  /\ Env

NextRx ==
  \/ \E a \in Addr : Advertise(a)
  \/ \E a \in Addr, f \in Frames : ReceiveEncrypted(a, f)

SpecRx == InitRx /\ [][NextRx]_vars

(***************************************************************************)
(* Group tables: segments heard from registered devices, and memberships   *)
(* read or written over a connection.                                      *)
(***************************************************************************)
\* the group a sender holds in slot i (from 0); gen tells two senders apart
SenderGroup(gen, i) == 250 + 3 * i + 1000 * gen

\* the group field a sender builds for n slots from offset off
GroupField(sg) ==
  [k \in 1..(XBGROUP_HEADER_LENGTH + sg.n * GROUP_MEMBER_LENGTH) |->
     IF k = 1 THEN sg.off + (IF sg.last THEN XGROUP_LAST_PACKET_FLAG ELSE 0)
     ELSE ConvertIntToList(SenderGroup(sg.gen, sg.off + (k - 2) \div GROUP_MEMBER_LENGTH), 2)
            [((k - 2) % GROUP_MEMBER_LENGTH) + 1]]

Segment(gen, off, n, last) == [gen |-> gen, off |-> off, n |-> n, last |-> last]

Segments ==
  {Segment(gen, sh[1], sh[2], sh[3]) :
     gen \in {0, 1},
     sh \in {<<0, 5, FALSE>>, <<5, 11, TRUE>>, <<0, 16, TRUE>>, <<5, 3, TRUE>>,
             <<8, 8, TRUE>>, <<14, 5, TRUE>>, <<0, 5, TRUE>>}}

PollSegments == {Segment(0, 0, 5, FALSE), Segment(0, 5, 11, TRUE)}

GroupLists ==
  {<<SenderGroup(0, 0), GROUP_MEMBER_UNASSIGNED>>,
   <<SenderGroup(0, 0), GROUP_MEMBER_UNASSIGNED, SenderGroup(0, 2)>>}

\* a device heard in encrypted advertisements: registered, its id known
HeardDevice(a) == [BleDevice EXCEPT !.encryptedAdv = TRUE, !.scannedDeviceId = a]

InitHeard ==
  /\ peripheral_list = [i \in 1..NumDevices |-> i]
  /\ dev = [a \in Addr |-> HeardDevice(a)]
  /\ pending_write = FALSE
  /\ bgCentralState = CENTRAL_STATE_SCANNING
  /\ bgPeriphState = PERIPH_STATE_STANDBY
  /\ stk = <<>>
  /\ lastTrans = {}
  /\ rlink = [a \in Addr |-> NoLink]
  /\ rproc = [a \in Addr |-> NoProc]
  /\ rxq = <<>>
  /\ tx = NoTx
  /\ groupPollingIndex = 0
  /\ poll = NoPoll
  /\ att = NoAtt
  /\ mapFile = WholeMap
  /\ serialFailures = 0
  /\ ser = NoSer
  /\ gw = NoGw
  /\ xb = NoXb
  /\ call = NoCall
  /\ nApi = 0
  /\ nLoss = 0
  /\ peer = [a \in Addr |-> DefaultPeer]
  /\ cacheFile = {}
  /\ networkConfigs = <<NetworkConfig(1, 21, 11, 5), NetworkConfig(2, 22, 12, 5)>>
  /\ netFile = FileLines(networkConfigs)
  /\ seq = NoSeq
  /\ rx = NoRx

InitGroup == InitHeard /\ grp = NoGrp

\* an accepted encrypted frame of device a that carries a group field
AcceptedGroupFrame(W, a, sg) ==
  LET W1 == [W EXCEPT !.dev[a].encryptedAdv = TRUE, !.dev[a].scannedDeviceId = a]
  IN ProcessXBPacket(W1, a, <<ENCRYPTED_PACKET_TYPE_XGROUP>> \o GroupField(sg))

GroupSegment(a, sg) ==
  /\ a \in Registered(World)
  /\ grp.n < MaxSegments
  /\ LET W1 == AcceptedGroupFrame(World, a, sg)
     IN Apply([W1 EXCEPT
          !.grp.n = @ + 1,
          !.grp.hist[a] = IF @ = Untracked THEN @ ELSE Append(@, sg),
          !.grp.ev = [a |-> a, kind |-> "segment", before |-> dev[a].receivedAllGroups,
                      end |-> sg.off + sg.n, last |-> sg.last]])
  /\ Env

\* SetGroupMembership after its write succeeded, RequestGroupMembership after
\* its read returned the list
ApiUpdateGroupMembership(a, groupList) ==
  /\ a \in Registered(World)
  /\ nApi < MaxApiCalls
  /\ nApi' = nApi + 1
  /\ LET W1 == UpdateGroupMembership(World, a, groupList)
     IN Apply([W1 EXCEPT
          !.grp.hist[a] = Untracked,
          !.grp.ev = [a |-> a, kind |-> "update", before |-> dev[a].receivedAllGroups,
                      end |-> Len(W1.dev[a].groups), last |-> FALSE]])
  /\ UNCHANGED <<peer, nLoss>>

NextGroup ==
  \/ \E a \in Addr, sg \in Segments : GroupSegment(a, sg)
  \/ \E a \in Addr, groupList \in GroupLists : ApiUpdateGroupMembership(a, groupList)

SpecGroup == InitGroup /\ [][NextGroup]_vars

(***************************************************************************)
(* Polling for group tables.  The collaborator calls                       *)
(* PollForGroupMembership again and again while time passes.               *)
(***************************************************************************)
InitPoll == InitHeard /\ grp = [NoGrp EXCEPT !.hist = [a \in Addr |-> Untracked]]

\* the devices that are incomplete and under the retry ceiling
UnderCeiling(W) ==
  {a \in Registered(W) : /\ W.dev[a].scannedDeviceId # None
                         /\ ~W.dev[a].receivedAllGroups
                         /\ ~W.dev[a].bootloaderMode
                         /\ W.dev[a].requestGroupAttempts < MAX_GROUP_REQUESTS}

\* what PollForGroupMembership reads and writes
GroupView ==
  [peripheral_list |-> peripheral_list, dev |-> dev,
   groupPollingIndex |-> groupPollingIndex, poll |-> poll]

ApplyGroup(W) ==
  /\ dev' = W.dev
  /\ groupPollingIndex' = W.groupPollingIndex
  /\ poll' = W.poll
  /\ UNCHANGED <<att, mapFile, serialFailures, ser, gw, xb, call, peripheral_list, pending_write, bgCentralState, bgPeriphState,
                 cacheFile, stk, lastTrans, rlink, rproc, rxq, peer, tx,
                 networkConfigs, netFile, seq, rx, grp, nApi, nLoss>>

\* a call of PollForGroupMembership, and what is remembered of it
PollCall(W) ==
  LET a  == Polled(W)
      W1 == PollForGroupMembership(W)
  IN IF a = NoDev THEN W1
     ELSE [W1 EXCEPT !.poll =
             [a |-> a, elig |-> UnderCeiling(W),
              again |-> /\ W.poll.a = a
                        /\ a \in UnderCeiling(W)
                        /\ (UnderCeiling(W) \cap W.poll.elig) \ {a} # {},
              early |-> /\ W.dev[a].requestGroupAttempts >= MAX_GROUP_REQUESTS
                        /\ W.dev[a].sinceGroupRequest <= GROUP_REQUEST_RETRY_INTERVAL]]

ApiPollForGroupMembership == ApplyGroup(PollCall(GroupView))

Elapse == ApplyGroup(Elapsed(GroupView, TickSeconds))

GroupSegmentHeard(a, sg) ==
  /\ a \in Registered(World)
  /\ LET W1 == AcceptedGroupFrame(World, a, sg)
     IN Apply([W1 EXCEPT
          !.grp.ev = [a |-> a, kind |-> "segment", before |-> dev[a].receivedAllGroups,
                      end |-> sg.off + sg.n, last |-> sg.last]])
  /\ Env

NextPoll ==
  \/ ApiPollForGroupMembership
  \/ Elapse
  \/ \E a \in Addr, sg \in PollSegments : GroupSegmentHeard(a, sg)

SpecPoll == InitPoll /\ [][NextPoll]_vars

\* the collaborator keeps calling PollForGroupMembership and time keeps passing
SpecPollFair == SpecPoll /\ WF_vars(ApiPollForGroupMembership) /\ WF_vars(Elapse)

(***************************************************************************)
(* Connection attempts that never produce a link: the device is heard,    *)
(* Connect() is called up to MaxConnects times, the controller never       *)
(* answers with a connection, and the timer of Process() or the time limit *)
(* of Connect() gives each attempt up.  The device may be heard again.     *)
(***************************************************************************)
\* an advertisement of a device that is registered already
AdvertiseAgain(a) ==
  /\ a \in Registered(World)
  /\ rxq = <<>>
  /\ LoopCondition(World)
  /\ Apply(my_ble_evt_gap_scan_response(MarkPolled(World),
              Msg("evt_gap_scan_response", None, a, 0, peer[a].boot, 0)))
  /\ Env

NextFail ==
  \/ Advertise(1)
  \/ AdvertiseAgain(1)
  \/ CheckActivity
  \/ \E to \in SUBSET Timers : ProcessStep(to)
  \/ LeaveLoop
  \/ \E tmo \in BOOLEAN : ApiConnect(1, tmo, MaxConnects)

SpecFail == InitTwo /\ [][NextFail]_vars

(***************************************************************************)
(* The handle cache from empty: two devices of the same firmware, the file *)
(* as Start() creates it.  Every line of the file is then one that         *)
(* UpdateAttributeInfoFile has written.                                    *)
(***************************************************************************)
\* firmware of the pair of devices: 0.045, 0.060, 0.075
CachePeers ==
  {Peer(45, {"ud"}, FALSE), Peer(60, {"ud", "s1"}, FALSE), Peer(75, {"ud", "s1", "gm"}, FALSE)}

InitCache ==
  /\ InitCommon
  /\ \E p \in CachePeers : peer = [a \in Addr |-> p]
  /\ cacheFile = {}

NextCache ==
  \/ \E a \in Addr : Advertise(a)
  \/ \E a \in Addr : RadioConnected(a)
  \/ \E a \in Addr : RadioEncrypted(a)
  \/ \E a \in Addr : RadioProcedureCompleted(a, RESULT_OK)
  \/ \E a \in Addr : RadioClosed(a)
  \/ CheckActivity
  \/ \E to \in SUBSET Timers : ProcessStep(to)
  \/ LeaveLoop
  \/ \E a \in Addr : ApiConnect(a, FALSE, MaxApiCalls)
  \/ \E a \in Addr : ApiDisconnect(a)

SpecCache == InitCache /\ [][NextCache]_vars

(***************************************************************************)
(* The two files, one step of a rewrite at a time, and a process that may  *)
(* die between any two steps.  The map file is rewritten with the line of  *)
(* a device of firmware 0.060 or 0.075 whose discovery has resolved every  *)
(* handle.                                                                 *)
(***************************************************************************)
MapWriteTemp(v) ==
  /\ mapFile.pc = "idle"
  /\ Apply(WriteTempFile(World, Line(v, BaseChars \cup NewChars(v))))
  /\ Env

MapRemove ==
  /\ mapFile.pc = "written"
  /\ Apply(RemoveOldFile(World))
  /\ Env

MapRename ==
  /\ mapFile.pc = "removed"
  /\ Apply(RenameNewFile(World))
  /\ Env

NextFiles ==
  \/ IssueAssigned
  \/ IssueBroadcast
  \/ FileOpen
  \/ FileWrite
  \/ \E v \in {60, 75} : MapWriteTemp(v)
  \/ MapRemove
  \/ MapRename
  \/ CrashRestart

SpecFiles == InitSeq /\ [][NextFiles]_vars

(***************************************************************************)
(* Sessions with a device that keeps advertising: its own packets, packets *)
(* of a type or length the handler does not know, and manufacturer data of *)
(* another company, heard from its address at any time.                    *)
(***************************************************************************)
\* a frame the handler does not recognise: r = 2 company id fits, type or
\* length does not; r = 3 another company id
AdvertiseUnrecognized(a, r, x) ==
  /\ rxq = <<>>
  /\ LoopCondition(World)
  /\ Apply(my_ble_evt_gap_scan_response(MarkPolled(World),
              Msg("evt_gap_scan_response", None, a, r, x, 0)))
  /\ Env

NextAdv ==
  \/ Advertise(1)
  \/ AdvertiseAgain(1)
  \/ \E r \in {2, 3}, x \in BOOLEAN : AdvertiseUnrecognized(1, r, x)
  \/ \E a \in Addr : RadioConnected(a)
  \/ \E a \in Addr : RadioEncrypted(a)
  \/ \E a \in Addr : RadioProcedureCompleted(a, RESULT_OK)
  \/ \E a \in Addr : RadioClosed(a)
  \/ CheckActivity
  \/ \E to \in SUBSET Timers : ProcessStep(to)
  \/ LeaveLoop
  \/ ApiConnect(1, FALSE, MaxApiCalls)
  \/ ApiDisconnect(1)

SpecAdv == Init /\ [][NextAdv]_vars

(***************************************************************************)
(* A serial line that fails: check_activity throws at any time, the        *)
(* exception ends the call in progress.                                    *)
(***************************************************************************)
CheckActivityFails ==
  /\ ser.restarts < MaxRestarts
  /\ serialFailures <= MAX_SERIAL_FAILURES
  /\ Apply([CountFailure(World) EXCEPT !.stk = <<>>])
  /\ Env

ApiRemoveDevice(a) ==
  /\ stk = <<>>
  /\ a \in Registered(World)
  /\ Apply(RemoveDevice(World, a))
  /\ Env

NextSerial ==
  \/ \E a \in Addr : Advertise(a)
  \/ RadioConnected(1)
  \/ CheckActivity
  \/ CheckActivityFails
  \/ \E to \in {{}, {"connect"}} : ProcessStep(to)
  \/ LeaveLoop
  \/ ApiConnect(1, FALSE, MaxApiCalls)
  \/ ApiRemoveDevice(2)

SpecSerial == InitTwo /\ [][NextSerial]_vars

(***************************************************************************)
(* The gateway.  The web server's handler appends to commandQueue in its   *)
(* own thread; Run() is called every POOL_TIME by a timer thread.  Run()   *)
(* calls Process(), whose CheckActivity parses the responses that have     *)
(* arrived by then, and then hands the first command of the queue to the   *)
(* radio and removes it.  The branch of Run() that looks after connections *)
(* is taken only when no command is handed over and is left out here.      *)
(***************************************************************************)
\* the values a POST request carries as intensity
Percents == {-1, 0, 50, 100, 101}

\* ximGateway.SetIntensity: the command is appended when the device exists
SetIntensity(W, a, intensity) ==
  IF a \in Registered(W)
  THEN [W EXCEPT !.gw.q = Append(@, [id |-> W.gw.n + 1, deviceId |-> a,
                                     light_level |-> intensity]),
                 !.gw.n = @ + 1]
  ELSE W

\* XIMWebServer.ximDeviceSpecific, POST with an intensity field
ximDeviceSpecific(W, a, intensity) ==
  IF a \in Registered(W) THEN SetIntensity(W, a, intensity) ELSE W

\* the last command of the queue instead of the first
GetCommandFromQueueLast(W) == IF W.gw.q = <<>> THEN 0 ELSE Len(W.gw.q)

\* index of the first command of the queue (from 1; 0: the queue is empty)
GetCommandFromQueue(W) == IF W.gw.q = <<>> THEN 0 ELSE 1

RemoveCommandFromQueue(W, i) ==
  [W EXCEPT !.gw.q = [j \in 1..(Len(@) - 1) |-> IF j < i THEN @[j] ELSE @[j + 1]],
            !.gw.at = 0]

\* CheckActivity(ser): every packet that has arrived is parsed
RECURSIVE ParseArrived(_)
ParseArrived(W) ==
  IF W.rxq = <<>> THEN W
  ELSE ParseArrived(Handle([W EXCEPT !.rxq = Tail(@)], Head(W.rxq)))

\* commandInfo['function'](...) down to TransmitAdvertisement: the advertising
\* data are set, the response is waited for, advertising is switched on
AdvertiseCommand(W) == SetAdvertisingState(ClearBusy(W), TRUE)

\* Run() up to and including the call of the command's function
Run(W, arrived, to) ==
  LET W0 == IF arrived THEN ParseArrived(W) ELSE W
      W1 == Process(W0, to)
      W2 == [W1 EXCEPT !.gw.flying = IF W1.pending_write THEN @ ELSE {}]
      i  == GetCommandFromQueue(W2)
  IN IF /\ Registered(W2) # {}
        /\ ~W2.pending_write
        /\ W2.bgCentralState \in {CENTRAL_STATE_STANDBY, CENTRAL_STATE_SCANNING}
        /\ i # 0
     THEN [AdvertiseCommand(W2) EXCEPT
             !.gw.issued = Append(@, W2.gw.q[i].id),
             !.gw.flying = @ \cup {W2.gw.q[i].id},
             !.gw.at = i]
     ELSE W2

ApiSetIntensity(a, intensity) ==
  /\ gw.n < MaxCommands
  /\ Apply(ximDeviceSpecific(World, a, intensity))
  /\ Env

GatewayRun(arrived, to) ==
  /\ stk = <<>>
  /\ gw.at = 0
  /\ Apply(Run(World, arrived, to))
  /\ Env

GatewayRemove ==
  /\ gw.at # 0
  /\ Apply(RemoveCommandFromQueue(World, gw.at))
  /\ Env

InitGateway == InitHeard /\ grp = NoGrp

NextGateway ==
  \/ \E a \in Addr, p \in Percents : ApiSetIntensity(a, p)
  \/ \E arrived \in BOOLEAN, to \in {{}, {"advertising"}, {"pending_write"}} :
       GatewayRun(arrived, to)
  \/ GatewayRemove

SpecGateway == InitGateway /\ [][NextGateway]_vars

(***************************************************************************)
(* Frames for assigned addresses, built byte by byte.                      *)
(***************************************************************************)
\* payloads of every length from the shortest (type and destination) on
XbPayloads ==
  {[i \in 1..n |-> (b + 3 * i) % BYTE] : n \in 3..MaxPayloadLen, b \in {0, 100, 200}}

BuildAssigned(encrypted, payload) ==
  /\ xb.n < MaxXbFrames
  /\ Apply(XbAssignedPacket(World, encrypted, payload))
  /\ Env

NextXb ==
  \E encrypted \in BOOLEAN, payload \in XbPayloads : BuildAssigned(encrypted, payload)

SpecXb == InitGateway /\ [][NextXb]_vars

(***************************************************************************)
(* Broadcast commands of the light-control family.  Of a command the       *)
(* fields that encode times are kept: fade, response and override.  The    *)
(* destination is given by its length: four bytes select the sensor        *)
(* packet, any other length the packet of the encrypted network.  The      *)
(* durations asked for are such that / and round() give the same in every  *)
(* version of the interpreter.                                             *)
(***************************************************************************)
fadeMap ==
  <<0, 100, 200, 300, 400, 500, 600, 700, 800, 900,
    1000, 1100, 1200, 1300, 1400, 1500, 1600, 1700, 1800, 1900,
    2000, 2250, 2500, 2750, 3000, 3250, 3500, 3750, 4000, 4250,
    4500, 4750, 5000, 5500, 6000, 6500, 7000, 7500, 8000, 8500,
    9000, 9500, 10000, 11000, 12000, 13000, 14000, 15000, 16000, 17000,
    18000, 19000, 20000, 22500, 25000, 27500, 30000, 35000, 40000, 45000,
    50000, 55000, 60000, 70000, 80000, 90000, 100000, 110000, 120000, 135000,
    150000, 165000, 180000, 195000, 210000, 225000, 240000, 255000, 270000, 285000,
    300000, 330000, 360000, 390000, 420000, 450000, 480000, 510000, 540000, 570000,
    600000, 660000, 720000, 780000, 840000, 900000, 960000, 1020000, 1080000, 1140000,
    1200000, 1350000, 1500000, 1650000, 1800000, 2100000, 2400000, 2700000, 3000000, 3300000,
    3600000, 4200000, 4800000, 5400000, 6000000, 6600000, 7200000, 8100000, 9000000, 9900000,
    10800000, 12600000, 14400000>>

overrideMap == <<0, 10, 20, 30, 60, 120, 300, 600>>

\* bisect_left of a sorted table: the number of entries below value
bisect_left(table, value) == Cardinality({i \in 1..Len(table) : table[i] < value})

\* always the entry below value
TableIndexLookupBelow(table, value) ==
  LET pos == bisect_left(table, value)
  IN IF pos = 0 THEN 0
     ELSE IF pos = Len(table) THEN Len(table) - 1
     ELSE pos - 1

\* indices count from 0, as in the code
TableIndexLookup(table, value) ==
  LET pos == bisect_left(table, value)
  IN IF pos = 0 THEN 0
     ELSE IF pos = Len(table) THEN Len(table) - 1
     ELSE LET before == table[pos]
              after  == table[pos + 1]
          IN IF after - value < value - before THEN pos ELSE pos - 1

\* int(round(x / d)): halves go to the even neighbour
RoundDiv(x, d) ==
  LET q == x \div d
      r == x % d
  IN IF 2 * r < d THEN q
     ELSE IF 2 * r > d THEN q + 1
     ELSE IF q % 2 = 0 THEN q ELSE q + 1

ConvertIntensityToValue(intensity) == intensity * 100

\* the override field is int(round(override_time / 10)), as in a scene recall
BroadcastLightControlScaled(destination, intensityInteger, fadeTimeInteger, values) ==
  IF destination = 4
  THEN [packet |-> "sensor", fade |-> ConvertIntToList(fadeTimeInteger, 2),
        response |-> values.response_time \div 10,
        override |-> values.override_time \div 10]
  ELSE [packet |-> "network", fade |-> <<TableIndexLookup(fadeMap, fadeTimeInteger)>>,
        response |-> Min({7, RoundDiv(values.response_time, 50)}),
        override |-> Min({7, RoundDiv(values.override_time, 10)})]

BroadcastLightControl(destination, intensityInteger, fadeTimeInteger, values) ==
  IF destination = 4
  THEN [packet |-> "sensor", fade |-> ConvertIntToList(fadeTimeInteger, 2),
        response |-> values.response_time \div 10,
        override |-> values.override_time \div 10]
  ELSE [packet |-> "network", fade |-> <<TableIndexLookup(fadeMap, fadeTimeInteger)>>,
        response |-> Min({7, RoundDiv(values.response_time, 50)}),
        override |-> Min({7, TableIndexLookup(overrideMap, values.override_time)})]

BroadcastLightLevel(destination, values) ==
  BroadcastLightControl(destination, ConvertIntensityToValue(values.light_level),
                        values.fade_time, values)

BroadcastStopFading(destination, values) ==
  BroadcastLightControl(destination, STOP_FADING_VALUE, 0, values)

BroadcastSensorControlMode(destination, values) ==
  BroadcastLightControl(destination, SENSOR_CONTROL_VALUE, 0, values)

BroadcastRecallScene(destination, values) ==
  IF destination = 4
  THEN [packet |-> "sensor", fade |-> ConvertIntToList(values.fade_time, 2),
        response |-> values.response_time \div 10,
        override |-> values.override_time \div 10]
  ELSE [packet |-> "network", fade |-> <<TableIndexLookup(fadeMap, values.fade_time)>>,
        response |-> Min({7, RoundDiv(values.response_time, 50)}),
        override |-> Min({7, RoundDiv(values.override_time, 10)})]

\* the functions that send a command with an override duration; the last
\* two send no fade of their own
OverrideCommands ==
  {"BroadcastLightLevel", "BroadcastStopFading", "BroadcastSensorControlMode",
   "BroadcastRecallScene"}

FadeTimes == {0, 50, 100, 150, 151, 700, 749, 751, 2126, 13500000, 14400000, 20000000}

OverrideTimes == {0, 10, 30, 40, 50, 60, 200, 1000}

BroadcastValues ==
  [light_level : {50}, scene_number : {1}, fade_time : FadeTimes,
   response_time : {100}, override_time : OverrideTimes]

Broadcast(W, fn, destination, values) ==
  [W EXCEPT !.call =
     [ids |-> W.call.ids, n |-> W.call.n + 1, fn |-> fn, args |-> [destination |-> destination, values |-> values],
      result |-> CASE fn = "BroadcastLightLevel" -> BroadcastLightLevel(destination, values)
                   [] fn = "BroadcastStopFading" -> BroadcastStopFading(destination, values)
                   [] fn = "BroadcastSensorControlMode" ->
                        BroadcastSensorControlMode(destination, values)
                   [] fn = "BroadcastRecallScene" -> BroadcastRecallScene(destination, values)]]

ApiBroadcast(fn, destination, values) ==
  /\ call.n < MaxCalls
  /\ Apply(Broadcast(World, fn, destination, values))
  /\ Env

NextBroadcast ==
  \E fn \in OverrideCommands, destination \in {1, 4}, values \in BroadcastValues :
     ApiBroadcast(fn, destination, values)

SpecBroadcast == InitGateway /\ [][NextBroadcast]_vars

(***************************************************************************)
(* Encryption and decryption of one text under keys and nonces of choice.  *)
(***************************************************************************)
CcmKeys == {0, 1, 200}

CcmNonces ==
  {[i \in 1..NONCE_LENGTH |-> 0],
   <<255, 127, 1>> \o [i \in 1..(NONCE_LENGTH - 3) |-> 0],
   [i \in 1..NONCE_LENGTH |-> 255]}

CcmTexts == UNION {[1..n -> {0, 7, 255}] : n \in 0..3}

ApiAesCcmEncrypt(key, nonce, inData) ==
  /\ call.n < MaxCalls
  /\ Apply([World EXCEPT !.call.n = @ + 1, !.call.fn = "AesCcmEncrypt",
              !.call.args = [key |-> key, nonce |-> nonce, inData |-> inData],
              !.call.result = AesCcmEncryptBytes(key, nonce, inData)])
  /\ Env

\* what was encrypted last is decrypted
ApiAesCcmDecrypt(key, nonce) ==
  /\ call.fn = "AesCcmEncrypt"
  /\ Apply([World EXCEPT !.call.fn = "AesCcmDecrypt",
              !.call.args = [key |-> key, nonce |-> nonce, inData |-> call.result.out,
                             mac |-> call.result.mic, encrypted |-> call.args],
              !.call.result = AesCcmDecryptBytes(key, nonce, call.result.out,
                                                 call.result.mic)])
  /\ Env

NextCcm ==
  \/ \E key \in CcmKeys, nonce \in CcmNonces, inData \in CcmTexts :
       ApiAesCcmEncrypt(key, nonce, inData)
  \/ \E key \in CcmKeys, nonce \in CcmNonces : ApiAesCcmDecrypt(key, nonce)

SpecCcm == InitGateway /\ [][NextCcm]_vars

(***************************************************************************)
(* Status packets of the first generation.  A number the code computes     *)
(* with a decimal factor is kept as a fraction: num over den.              *)
(***************************************************************************)
ADV_COMPANY_ID_XICATO == <<83, 2>>
PACKET_TYPE_XB1 == <<1, 1>>
XB_COMPANY_ID_OFFSET == 0
XB_PACKET_TYPE_OFFSET == XB_COMPANY_ID_OFFSET + Len(ADV_COMPANY_ID_XICATO)
XB_V0_PACKET_TYPE_LENGTH == 2
XB_V0_DEVICE_ID_LENGTH == 4
XB_V0_SEQUENCE_ID_LENGTH == 1
XB_V0_HOPS_LENGTH == 1
XB_V0_DEVICE_ID_OFFSET == XB_PACKET_TYPE_OFFSET + XB_V0_PACKET_TYPE_LENGTH
XB_V0_SEQUENCE_ID_OFFSET == XB_V0_DEVICE_ID_OFFSET + XB_V0_DEVICE_ID_LENGTH
XB_V0_HOPS_OFFSET == XB_V0_SEQUENCE_ID_OFFSET + XB_V0_SEQUENCE_ID_LENGTH
XB1_V0_PAYLOAD_OFFSET == XB_V0_HOPS_OFFSET + XB_V0_HOPS_LENGTH
XB1_INTENSITY_LENGTH == 2
XB1_STATUS_LENGTH == 1
XB1_TEMPERATURE_LENGTH == 1
XB1_POWER_LENGTH == 2
XB1_VIN_LENGTH == 1
XB1_VIN_RIPPLE_LENGTH == 1
XB1_LOCKOUT_TIME_LENGTH == 1
XB1_FIELD_LENGTH == 26
XB1_INTENSITY_OFFSET == 0
XB1_STATUS_OFFSET == XB1_INTENSITY_OFFSET + XB1_INTENSITY_LENGTH
XB1_POWER_OFFSET == XB1_STATUS_OFFSET + XB1_STATUS_LENGTH
XB1_LED_TEMPERATURE_OFFSET == XB1_POWER_OFFSET + XB1_POWER_LENGTH
XB1_PCB_TEMPERATURE_OFFSET == XB1_LED_TEMPERATURE_OFFSET + XB1_TEMPERATURE_LENGTH
XB1_VIN_OFFSET == XB1_PCB_TEMPERATURE_OFFSET + XB1_TEMPERATURE_LENGTH
XB1_VIN_RIPPLE_OFFSET == XB1_VIN_OFFSET + XB1_VIN_LENGTH
XB1_LOCKOUT_TIME_OFFSET == XB1_VIN_RIPPLE_OFFSET + XB1_VIN_RIPPLE_LENGTH
XB1_EXTENDED_VIN_OFFSET == XB1_LOCKOUT_TIME_OFFSET + XB1_LOCKOUT_TIME_LENGTH

\* thisList[from:to] and thisList[i], counted from zero as the code counts
Slice(thisList, from, to) ==
  [i \in 1..(Min({to, Len(thisList)}) - from) |-> thisList[from + i]]

At(thisList, i) == thisList[i + 1]

\* the first of the two intensity bytes is taken as the high one
ProcessXBeacon1FieldsHighFirst(this_field) ==
  [scannedStatus         |-> At(this_field, XB1_STATUS_OFFSET),
   scannedIntensity      |->
      [num |-> At(this_field, XB1_INTENSITY_OFFSET) * 256
                 + At(this_field, XB1_INTENSITY_OFFSET + 1),
       den |-> 100],
   scannedLedTemperature |-> At(this_field, XB1_LED_TEMPERATURE_OFFSET),
   scannedPcbTemperature |-> At(this_field, XB1_PCB_TEMPERATURE_OFFSET),
   scannedPower          |->
      [num |-> At(this_field, XB1_POWER_OFFSET) + At(this_field, XB1_POWER_OFFSET + 1) * 256,
       den |-> 10],
   scannedVin            |->
      [num |-> At(this_field, XB1_VIN_OFFSET) * 250
                 + ((At(this_field, XB1_EXTENDED_VIN_OFFSET) \div 16) % 16) * 25,
       den |-> 1000],
   scannedVinRipple      |->
      [num |-> At(this_field, XB1_VIN_RIPPLE_OFFSET) * 50
                 + (At(this_field, XB1_EXTENDED_VIN_OFFSET) % 16) * 5,
       den |-> 1],
   scannedLockoutTimeRemaining |-> At(this_field, XB1_LOCKOUT_TIME_OFFSET) * 10]

\* the values a status payload is decoded to
ProcessXBeacon1Fields(this_field) ==
  [scannedStatus         |-> At(this_field, XB1_STATUS_OFFSET),
   scannedIntensity      |->
      [num |-> At(this_field, XB1_INTENSITY_OFFSET)
                 + At(this_field, XB1_INTENSITY_OFFSET + 1) * 256,
       den |-> 100],
   scannedLedTemperature |-> At(this_field, XB1_LED_TEMPERATURE_OFFSET),
   scannedPcbTemperature |-> At(this_field, XB1_PCB_TEMPERATURE_OFFSET),
   scannedPower          |->
      [num |-> At(this_field, XB1_POWER_OFFSET) + At(this_field, XB1_POWER_OFFSET + 1) * 256,
       den |-> 10],
   scannedVin            |->
      [num |-> At(this_field, XB1_VIN_OFFSET) * 250
                 + ((At(this_field, XB1_EXTENDED_VIN_OFFSET) \div 16) % 16) * 25,
       den |-> 1000],
   scannedVinRipple      |->
      [num |-> At(this_field, XB1_VIN_RIPPLE_OFFSET) * 50
                 + (At(this_field, XB1_EXTENDED_VIN_OFFSET) % 16) * 5,
       den |-> 1],
   scannedLockoutTimeRemaining |-> At(this_field, XB1_LOCKOUT_TIME_OFFSET) * 10]

\* the branch of the scan response for a status packet: this_field is the
\* manufacturer data from the company identifier on
XBeacon1Packet(W, a, this_field) ==
  IF /\ Len(this_field) >= 2
     /\ Slice(this_field, 0, 2) = ADV_COMPANY_ID_XICATO
     /\ Slice(this_field, XB_PACKET_TYPE_OFFSET, XB_PACKET_TYPE_OFFSET + 2) = PACKET_TYPE_XB1
     /\ Len(this_field) = XB1_FIELD_LENGTH
     /\ a \in Registered(W)
  THEN [W EXCEPT !.dev[a].bootloaderMode = FALSE,
                 !.call.ids[a] = Slice(this_field, XB_V0_DEVICE_ID_OFFSET,
                                       XB_V0_DEVICE_ID_OFFSET + XB_V0_DEVICE_ID_LENGTH),
                 !.call.n = @ + 1,
                 !.call.fn = "ProcessXBeacon1Fields",
                 !.call.args = this_field,
                 !.call.result =
                    ProcessXBeacon1Fields(Slice(this_field, XB1_V0_PAYLOAD_OFFSET,
                                                Len(this_field)))]
  ELSE [W EXCEPT !.call.n = @ + 1, !.call.fn = "none", !.call.args = this_field,
                 !.call.result = <<>>]

\* the frames heard: header, device identifier, sequence number, hops, the
\* eleven bytes of the fields, and what fills the frame up to its length
Status1Bytes ==
  [intensity : {<<16, 39>>, <<0, 0>>, <<255, 255>>, <<39, 16>>},
   ledTemp : {0, 85, 255}, pcbTemp : {0, 60}, vin : {0, 96, 255},
   extendedVin : {0, 147, 255}, length : {XB1_FIELD_LENGTH - 1, XB1_FIELD_LENGTH}]

Status1Frame(b) ==
  LET body == ADV_COMPANY_ID_XICATO \o PACKET_TYPE_XB1 \o <<1, 2, 3, 4>> \o <<9>> \o <<0>>
                \o b.intensity \o <<1>> \o <<44, 1>> \o <<b.ledTemp, b.pcbTemp, b.vin>>
                \o <<3, 6>> \o <<b.extendedVin>>
  IN body \o [i \in 1..(b.length - Len(body)) |-> 0]

HearStatus1(a, b) ==
  /\ call.n < MaxCalls
  /\ Apply(XBeacon1Packet(World, a, Status1Frame(b)))
  /\ Env

NextStatus1 == \E a \in Addr, b \in Status1Bytes : HearStatus1(a, b)

SpecStatus1 == InitGateway /\ [][NextStatus1]_vars

(***************************************************************************)
(* One session that nothing cuts short: the device is heard, Connect() is  *)
(* called once, the link stays up, the controller and the remote device    *)
(* answer every command, and the host keeps reading what arrives, keeps   *)
(* calling Process() in its loops and leaves the loops that are over.      *)
(***************************************************************************)
NextLive ==
  \/ Advertise(1)
  \/ RadioConnected(1)
  \/ RadioEncrypted(1)
  \/ \E r \in {RESULT_PAIRING_NOT_SUPPORTED, RESULT_ERROR} : RadioBondingFail(1, r)
  \/ RadioProcedureCompleted(1, RESULT_OK)
  \/ CheckActivity
  \/ \E to \in SUBSET Timers : ProcessStep(to)
  \/ LeaveLoop
  \/ \E tmo \in BOOLEAN : ApiConnect(1, tmo, 1)

SpecLive ==
  /\ Init
  /\ [][NextLive]_vars
  /\ WF_vars(RadioConnected(1))
  /\ WF_vars(RadioEncrypted(1))
  /\ WF_vars(RadioProcedureCompleted(1, RESULT_OK))
  /\ WF_vars(CheckActivity)
  /\ WF_vars(\E to \in SUBSET Timers : ProcessStep(to))
  /\ WF_vars(LeaveLoop)

(***************************************************************************)
(* Devices by group.  A logical address is a list of bytes: four in the    *)
(* packets of the first generation, two or three in those of the network.  *)
(* Of GetDevicesInGroup the branches for identifiers of three and of four  *)
(* bytes are kept.                                                         *)
(***************************************************************************)
DeviceIds ==
  {<<1, 1, 1, 1>>, <<1, 2, 1, 1>>, <<2, 1, 1, 1>>, <<1, 1, 1, 2>>, <<255, 1, 1, 1>>,
   <<1, 1, 1>>, <<1, 1>>}

GroupMasks == [1..4 -> {1, 2, 255}] \cup {<<1, 1, 1>>}

\* the loop over the four bytes, which is left with isValid
RECURSIVE MatchBytes(_, _, _, _)
MatchBytes(groupId, scannedDeviceId, i, isValid) ==
  IF i > 4 THEN isValid
  ELSE MatchBytes(groupId, scannedDeviceId, i + 1,
                  IF groupId[i] # 255 /\ groupId[i] # scannedDeviceId[i]
                  THEN FALSE ELSE isValid)

\* a device is valid as soon as its first byte fits
IsValidFirstByte(groupId, scannedDeviceId) ==
  /\ scannedDeviceId # <<>> /\ Len(scannedDeviceId) = 4
  /\ (groupId[1] = 255 \/ groupId[1] = scannedDeviceId[1])

\* isValid of a device for an identifier of four bytes
IsValid(groupId, scannedDeviceId) ==
  /\ scannedDeviceId # <<>> /\ Len(scannedDeviceId) = 4
  /\ MatchBytes(groupId, scannedDeviceId, 1, TRUE)

\* inGroupList, in the order of the registry
GetDevicesInGroup(W, groupId) ==
  SelectSeq(W.peripheral_list,
            LAMBDA a : IF Len(groupId) = 3 THEN W.call.ids[a] = groupId
                       ELSE Len(groupId) = 4 /\ IsValid(groupId, W.call.ids[a]))

\* a packet of a registered device tells its logical address
HearDeviceId(a, id) ==
  /\ a \in Registered(World)
  /\ Apply([World EXCEPT !.call.ids[a] = id])
  /\ Env

ApiGetDevicesInGroup(groupId) ==
  /\ call.n < MaxCalls
  /\ Apply([World EXCEPT !.call.n = @ + 1, !.call.fn = "GetDevicesInGroup",
                         !.call.args = groupId,
                         !.call.result = GetDevicesInGroup(World, groupId)])
  /\ Env

NextByGroup ==
  \/ \E a \in Addr, id \in DeviceIds : HearDeviceId(a, id)
  \/ ApiRemoveDevice(2)
  \/ \E groupId \in GroupMasks : ApiGetDevicesInGroup(groupId)

SpecByGroup == InitGateway /\ [][NextByGroup]_vars

(***************************************************************************)
(* Properties of the connection machine.                                   *)
(***************************************************************************)
\* the table of section 4.4: one step forward along the chain (Encrypting
\* optional), the reduced path of bootloader devices, a step into
\* Disconnecting from a non-Standby state, and any return to Standby
TableTransitions ==
  {<<STATE_STANDBY, STATE_CONNECTING>>, <<STATE_CONNECTING, STATE_ENCRYPTING>>,
   <<STATE_CONNECTING, STATE_GET_VERSION>>, <<STATE_ENCRYPTING, STATE_GET_VERSION>>,
   <<STATE_GET_VERSION, STATE_FINDING_SERVICES>>,
   <<STATE_FINDING_SERVICES, STATE_FINDING_ATTRIBUTES>>,
   <<STATE_FINDING_ATTRIBUTES, STATE_ENABLING_NOTIFICATIONS>>,
   <<STATE_ENABLING_NOTIFICATIONS, STATE_LISTENING_DATA>>,
   <<STATE_CONNECTING, STATE_FINDING_SERVICES>>, <<STATE_ENCRYPTING, STATE_FINDING_SERVICES>>,
   <<STATE_FINDING_SERVICES, STATE_ENABLING_NOTIFICATIONS>>}
  \cup {<<s, STATE_DISCONNECTING>> : s \in States \ {STATE_STANDBY, STATE_DISCONNECTING}}
  \cup {<<s, STATE_STANDBY>> : s \in States \ {STATE_STANDBY}}

\* C1: every change of a device's connectionState is a transition of the
\* section 4.4 table.
C1_TransitionTable ==
  \A t \in lastTrans : <<t[2], t[3]>> \in TableTransitions

\* C2: at most one device has an open or pending link-layer connection (a
\* connection handle, or a connect request the radio is carrying out).
C2_OneLinkAtATime ==
  Cardinality({a \in Addr : dev[a].connection_handle # None \/ rlink[a].st = "pending"}) <= 1

\* the characteristics expected of firmware version v
Expected(v) == BaseChars \cup NewChars(v)

\* the cache has an entry for the version of device a and no entry for that
\* version holds every expected handle
CacheLacksHandle(a) ==
  /\ \E l \in cacheFile : l.ver = peer[a].ver
  /\ \A l \in cacheFile : l.ver = peer[a].ver => ~(Expected(l.ver) \subseteq l.chars)

\* C3: a device whose version-matched cache entry lacks an expected handle
\* enters ListeningData only from the discovery states, never directly.
C3_IncompleteCacheForcesDiscovery ==
  \A t \in lastTrans :
     (t[3] = STATE_LISTENING_DATA /\ CacheLacksHandle(t[1]))
        => t[2] \in {STATE_FINDING_ATTRIBUTES, STATE_ENABLING_NOTIFICATIONS}

\* C4: after three consecutive unexpected disconnections the device is in
\* Standby and no reconnection to it is under way.
C4_PassiveAfterThree ==
  \A a \in Addr :
     dev[a].unexpectedDisconnections >= 3
        => (dev[a].connectionState = STATE_STANDBY /\ rlink[a].st = "none")

(***************************************************************************)
(* Properties of attribute writes.                                         *)
(***************************************************************************)
\* C7: a chunked write returns success only if every chunk and then the
\* commit were acknowledged with success by the device, and each command it
\* issued but the last one was acknowledged (nothing is issued after a chunk
\* that failed or was not acknowledged).
C7_ChunkedAllOrNothing ==
  tx.kind = "chunked" =>
     /\ tx.result = "true" => tx.acked = NumChunks(tx.len) + 1
     /\ tx.sent <= tx.acked + 1

\* commands whose completion the host has not parsed yet
Outstanding ==
  Cardinality({i \in DOMAIN rxq : rxq[i].fin = 1})
    + Cardinality({a \in Addr : rproc[a].kind # "idle"})

\* C8: at most one transport command is awaiting its completion.
C8_OneOutstandingCommand == Outstanding <= 1

\* C9: a single write returns true only if the device acknowledged this
\* write with success and the acknowledgement came within the timeout the
\* caller gave.
C9_SingleWriteWithinTimeout ==
  (tx.kind = "single" /\ tx.result = "true") =>
     (tx.acked = 1 /\ tx.elapsed < tx.timeout)

(***************************************************************************)
(* Properties of the sequence counter.                                     *)
(***************************************************************************)
\* C5: the counter a restarted process loads from the file is at least the
\* sequence number of the last frame transmitted before the process died.
C5_CounterPersistedBeforeReuse ==
  seq.loaded # None => seq.loaded >= seq.atCrash

\* C6: the sequence number put into a frame is never 0, and it is the one
\* of the frame before plus one, or 1 after the greatest value.
C6_NextSequenceNumber ==
  seq.last # None =>
     /\ seq.last # 0
     /\ seq.prev # None =>
           \/ seq.last = seq.prev + 1
           \/ seq.prev = XBX_SEQUENCE_ID_MAX_VALUE - 1 /\ seq.last = 1

(***************************************************************************)
(* Properties of inbound encrypted frames.                                 *)
(***************************************************************************)
\* the tag of the latest frame verifies under this key, the nonce being the
\* header as the receive slot's header key decrypts it
TagVerifies(key) ==
  AesCcmDecrypt(key,
                HeaderCrypt(rx.before.networkConfigs[selectedRxNetworkIndex].headerKey,
                            rx.frame.ct, rx.frame.hdr, -1),
                rx.frame.ct, rx.frame.mic).isValid

VerifiesUnderRxKey == TagVerifies(rx.before.networkConfigs[selectedRxNetworkIndex].key)

VerifiesUnderTxKey == TagVerifies(rx.before.networkConfigs[selectedTxNetworkIndex].key)

IdMatches ==
  PartialId(rx.frame.id) = PartialId(rx.before.networkConfigs[selectedRxNetworkIndex].id)

\* C10 as stated: a frame is accepted exactly if its tag verifies under the
\* receive-slot key or the transmit-slot key, and a frame that is not
\* accepted changes nothing.
C10_AcceptedIffTagVerifies ==
  rx.n > 0 =>
     /\ rx.accepted <=> (VerifiesUnderRxKey \/ VerifiesUnderTxKey)
     /\ ~rx.accepted => rx.after = rx.before

\* C10: a frame is accepted exactly if its partial network id is that of
\* the receive slot and its tag verifies under the receive-slot key or the
\* transmit-slot key; a frame that is not accepted creates or changes no
\* device and updates no sequence state.
C10_AcceptedIffIdAndTag ==
  rx.n > 0 =>
     /\ rx.accepted <=> (IdMatches /\ (VerifiesUnderRxKey \/ VerifiesUnderTxKey))
     /\ ~rx.accepted => rx.after = rx.before

\* a frame that only the transmit-slot key verifies was accepted
C10_Witness ==
  rx.n > 0 /\ rx.accepted /\ ~VerifiesUnderRxKey /\ VerifiesUnderTxKey

(***************************************************************************)
(* Properties of the group tables and of the polling for them.             *)
(***************************************************************************)
\* the slots of the table of device a below slot number end
Below(a, end) == {j \in 1..Len(dev[a].groups) : j <= end}

\* C11: the completeness flag of a device becomes true only in a step after
\* which every slot below the end of the reported last-packet segment (below
\* the end of the list, for a membership read or written) is filled.
C11_CompleteOnlyWhenFilled ==
  (grp.ev.a # NoDev /\ ~grp.ev.before /\ dev[grp.ev.a].receivedAllGroups)
     => /\ grp.ev.kind = "segment" => grp.ev.last
        /\ \A j \in Below(grp.ev.a, grp.ev.end) : dev[grp.ev.a].groups[j] # None

C11_Witness ==
  /\ grp.ev.kind = "segment" /\ ~grp.ev.before /\ dev[grp.ev.a].receivedAllGroups
  /\ grp.n >= 2

\* the segments are in order and together cover slots 0..k-1, the final one
\* carrying the last-packet flag
InOrder(h) ==
  /\ h # <<>> /\ h # Untracked
  /\ h[1].off = 0
  /\ \A i \in 1..(Len(h) - 1) : h[i + 1].off = h[i].off + h[i].n
  /\ h[Len(h)].last
  /\ h[Len(h)].off + h[Len(h)].n <= NUM_GROUPS

\* the value received for slot j (from 0) in segments that are in order
Received(h, j) ==
  LET i == CHOOSE i \in 1..Len(h) : h[i].off <= j /\ j < h[i].off + h[i].n
  IN SenderGroup(h[i].gen, j)

\* C12: from an empty table, segments in order that cover slots 0..k-1, the
\* final one with the last-packet flag, give a table of 16 slots that holds
\* each received value at its offset, the unassigned sentinel in every
\* trailing slot, has no gap and is marked complete.
C12_OrderedSegmentsGiveCompleteTable ==
  \A a \in Addr :
     InOrder(grp.hist[a]) =>
        LET h == grp.hist[a]
            k == h[Len(h)].off + h[Len(h)].n
            g == dev[a].groups
        IN /\ Len(g) = NUM_GROUPS
           /\ \A j \in 0..(NUM_GROUPS - 1) :
                 g[j + 1] = IF j < k THEN Received(h, j) ELSE GROUP_MEMBER_UNASSIGNED
           /\ dev[a].receivedAllGroups

C12_Witness ==
  \E a \in Addr : /\ InOrder(grp.hist[a]) /\ Len(grp.hist[a]) = 2
                  /\ grp.hist[a][1].n = 5 /\ grp.hist[a][2].n = 11
                  /\ dev[a].receivedAllGroups

\* a device that is incomplete and at the retry ceiling
Backoff(a) ==
  /\ a \in Registered(World)
  /\ dev[a].scannedDeviceId # None
  /\ ~dev[a].receivedAllGroups
  /\ ~dev[a].bootloaderMode
  /\ dev[a].requestGroupAttempts >= MAX_GROUP_REQUESTS

\* C13: a device at the retry ceiling is not sent a request before the
\* backoff interval has elapsed since its last request, and it does not stay
\* at the ceiling for ever: it is sent a request again.
C13_BackoffThenPolledAgain ==
  /\ [](~poll.early)
  /\ \A a \in Addr : Backoff(a) ~> ~Backoff(a)

\* C14: no device under the retry ceiling is sent a second request in a row
\* while another device is incomplete and under the ceiling at both requests.
C14_RoundRobin == ~poll.again

(***************************************************************************)
(* Connection attempts that fail.                                          *)
(***************************************************************************)
\* C15: a connection attempt that Process() finds past its time limit is
\* given up: the device is in Standby afterwards and its counter of failed
\* attempts is one higher than before.
C15_TimedOutAttemptCounted ==
  \A x \in att.abandoned :
    x.state = STATE_STANDBY /\ x.after = x.before + 1

\* C16: a connect request is never sent for a device that has failed
\* MAX_FAILED_CONNECTION_ATTEMPTS times in a row and has not been heard since.
C16_NoAttemptAfterThreeFailures == att.started = {}

(***************************************************************************)
(* Bonding failure.                                                        *)
(***************************************************************************)
\* the host parses a bonding failure "pairing not supported" for the link of
\* device a while a is Encrypting
BondingFailHandled(a) ==
  /\ rxq # <<>>
  /\ Head(rxq).t = "evt_sm_bonding_fail"
  /\ Head(rxq).r = RESULT_PAIRING_NOT_SUPPORTED
  /\ GetDeviceWithConnectionHandle(World, Head(rxq).c) = a
  /\ dev[a].connectionState = STATE_ENCRYPTING
  /\ CheckActivity

\* C17: when the bonding failure "pairing not supported" is handled for a
\* device in Encrypting, the device no longer requires encryption and is in
\* GetVersion afterwards.
C17_BondingFailContinuesToGetVersion ==
  [][\A a \in Addr :
       BondingFailHandled(a) =>
         /\ ~dev'[a].encryptionRequired
         /\ dev'[a].connectionState = STATE_GET_VERSION]_vars

(***************************************************************************)
(* The end of attribute discovery.                                         *)
(***************************************************************************)
\* the host parses the completion of the last find_information of device a
DiscoveryCompleted(a) ==
  /\ rxq # <<>>
  /\ Head(rxq).t = "evt_attclient_procedure_completed"
  /\ GetDeviceWithConnectionHandle(World, Head(rxq).c) = a
  /\ dev[a].connectionState = STATE_FINDING_ATTRIBUTES
  /\ CheckActivity

\* the notification characteristic a device needs (the command
\* characteristic of a bootloader device) has no client-configuration handle
LacksNotificationHandle(d) == d.bootloaderMode /\ ~GetCCCHandle(d, "bls")

VersionRead(a) ==
  /\ rxq # <<>>
  /\ Head(rxq).t = "evt_attclient_procedure_completed"
  /\ GetDeviceWithConnectionHandle(World, Head(rxq).c) = a
  /\ dev[a].connectionState = STATE_GET_VERSION
  /\ dev[a].swVersion # None
  /\ CheckActivity

\* C19: when live discovery ends with every characteristic of the device's
\* list resolved, the cache file holds a line for the device's version
\* afterwards; and a device with no handle in memory whose version has a line
\* in the file (written by such a discovery: the file starts empty) is in
\* ListeningData as soon as its version read is completed.
C19_RewrittenCacheAccepted ==
  [][\A a \in Addr :
       /\ (DiscoveryCompleted(a) /\ ~dev[a].bootloaderMode
             /\ dev[a].attributeList \subseteq dev[a].handles)
            => \E l \in cacheFile' : l.ver = dev[a].swVersion
       /\ (VersionRead(a) /\ dev[a].handles = {}
             /\ \E l \in cacheFile : l.ver = dev[a].swVersion)
            => dev'[a].connectionState = STATE_LISTENING_DATA]_vars

(***************************************************************************)
(* The files on disk.                                                      *)
(***************************************************************************)
\* C20: at every instant the credential file and the handle-map file are on
\* disk as a complete version: the credential file holds the lines of both
\* slots, and the handle-map file exists.
C20_RewritesAtomic ==
  /\ Len(netFile) = 2
  /\ mapFile.onDisk

(***************************************************************************)
(* Attribute maps and advertisements.                                      *)
(***************************************************************************)
\* the host parses an attribute-client event of the link of device a: the
\* handlers of these events store, load and look up handles
HandleEventParsed(a) ==
  /\ rxq # <<>>
  /\ Head(rxq).t \in {"evt_attclient_group_found",
                      "evt_attclient_find_information_found",
                      "evt_attclient_procedure_completed"}
  /\ GetDeviceWithConnectionHandle(World, Head(rxq).c) = a
  /\ CheckActivity

\* C21: whenever handles of a device in a session are stored, loaded from
\* the cache or looked up, the map that is used (the one bootloaderMode
\* selects) is the map of the mode the device is in.
C21_MapOfSessionMode ==
  [][\A a \in Addr :
       HandleEventParsed(a) => dev[a].bootloaderMode = peer[a].boot]_vars

\* C23: processing a frame that fits no recognised company id, length or
\* type registers no device and leaves every field of every device as it was.
C23_UnrecognizedFrameChangesNothing ==
  [][\A a \in Addr, r \in {2, 3}, x \in BOOLEAN :
       AdvertiseUnrecognized(a, r, x)
         => (peripheral_list' = peripheral_list /\ dev' = dev)]_vars

(***************************************************************************)
(* The registry and the serial connection.                                 *)
(***************************************************************************)
\* C22: a registered device leaves the registry only in a step that is a
\* remove request for it; no step of the engine itself takes it out.
C22_RemovedOnlyOnRequest ==
  [][\A a \in Addr :
       (a \in Registered(World) /\ a \notin Registered(World)')
          => ApiRemoveDevice(a)]_vars

\* Process() is called with the count of failures past the threshold
RestartTick ==
  /\ serialFailures > MAX_SERIAL_FAILURES
  /\ \E to \in SUBSET Timers : ProcessStep(to)

\* C26: failures are counted one by one, and the tick that finds the count
\* past the threshold closes the port, starts the count again from zero (so
\* that it holds the failures of this tick only) and, when a port answers
\* and nothing fails again, runs the initialisation to its end.
C26_RestartWhenCountExceeded ==
  [][/\ CheckActivityFails => serialFailures' = serialFailures + 1
     /\ RestartTick =>
          /\ ser'.closed
          /\ ser'.restarts = ser.restarts + 1
          /\ serialFailures' = ser'.counted
          /\ (ser'.open /\ ser'.counted = 0) => ser'.init]_vars

C26_Witness ==
  /\ ser.restarts > 0
  /\ ser.closed /\ ser.open /\ ser.init
  /\ serialFailures = 0

(***************************************************************************)
(* The gateway's command queue.                                            *)
(***************************************************************************)
\* the ids of the commands that wait in the queue and were not handed over
Waiting ==
  LET ids == [j \in 1..Len(gw.q) |-> gw.q[j].id]
  IN IF gw.at = 0 THEN ids
     ELSE [j \in 1..(Len(ids) - 1) |-> IF j < gw.at THEN ids[j] ELSE ids[j + 1]]

C25_OutOfRangeRejected ==
  [][\A a \in Addr, p \in Percents :
       (p \notin 0..100 /\ ApiSetIntensity(a, p)) => gw'.q = gw.q]_vars

(***************************************************************************)
(* The header of an encrypted frame.                                       *)
(***************************************************************************)
\* the first n bytes of s, with zeros after its end
FirstBytesZeroPadded(s, n) == [i \in 1..n |-> IF i <= Len(s) THEN s[i] ELSE 0]

\* C27: in an encrypted outbound frame the payload is encrypted before the
\* header, and the header is encrypted under the header key with the nonce
\* that is the first 13 bytes, zero-padded, of the payload's cipher text
\* followed by its tag; the frame carries that header, cipher text and tag.
C27_HeaderNonceFromCipherText ==
  (xb.encrypted /\ xb.n > 0) =>
     LET nonce == FirstBytesZeroPadded(xb.eMsg \o xb.eMic, NONCE_LENGTH)
         c     == networkConfigs[selectedTxNetworkIndex]
     IN /\ xb.steps = <<"payload", "header">>
        /\ xb.headerNonce = nonce
        /\ xb.encHeader = AesCcmEncryptBytes(c.headerKey, nonce, xb.header).out
        /\ xb.frame = <<XB_TYPE_ENCRYPTED_FLAG + PartialId(c.id)>>
                        \o xb.encHeader \o xb.eMsg \o xb.eMic

\* frames shorter and longer than the nonce have been built
C27_Witness ==
  /\ xb.encrypted /\ xb.n = MaxXbFrames
  /\ Len(xb.eMsg \o xb.eMic) > NONCE_LENGTH
  /\ xb.headerNonce[NONCE_LENGTH] # 0

(***************************************************************************)
(* Durations in broadcast commands.                                        *)
(***************************************************************************)
\* index i (from 0) is that of an entry of table nearest to value
Nearest(table, i, value) ==
  /\ i \in 0..(Len(table) - 1)
  /\ \A j \in 1..Len(table) :
       Abs(table[i + 1] - value) <= Abs(table[j] - value)

\* a command with an override duration was built
OverrideSent == call.fn \in OverrideCommands

\* a command with a fade duration of its own was built
FadeSent == call.fn \in {"BroadcastLightLevel", "BroadcastRecallScene"}

\* C28: in every command with an override duration (light level, stop
\* fade, sensor control mode, scene recall) the override field is the index
\* of the entry of overrideMap nearest to the duration asked for.
C28_OverrideIsTableIndex ==
  OverrideSent =>
    Nearest(overrideMap, call.result.override, call.args.values.override_time)

ByGroupAnswer ==
  (call.fn = "GetDevicesInGroup" /\ Len(call.args) = 4) =>
     LET m == call.args
         r == call.result
     IN /\ {r[k] : k \in 1..Len(r)} =
             {a \in Registered(World) :
                /\ Len(call.ids[a]) = 4
                /\ \A i \in 1..4 : m[i] = 255 \/ m[i] = call.ids[a][i]}
        /\ \A j, k \in 1..Len(r) : r[j] = r[k] => j = k

\* C30: for a mask m of four bytes the devices returned are exactly the
\* registered devices with a logical address d of four bytes such that at
\* every position i, m[i] = 0xFF or m[i] = d[i]; each is returned once.
C30_ByGroupMatchesMask ==
  [][(\E groupId \in GroupMasks : ApiGetDevicesInGroup(groupId)) => ByGroupAnswer']_vars

\* a mask with a wildcard and a fixed byte that tells two registered
\* devices with addresses of four bytes apart
C30_Witness ==
  /\ call.fn = "GetDevicesInGroup" /\ Len(call.args) = 4
  /\ Len(call.result) = 1
  /\ Len(peripheral_list) = 2
  /\ \A a \in Registered(World) : Len(call.ids[a]) = 4
  /\ \E i, j \in 1..4 : call.args[i] = 255 /\ call.args[j] # 255

(***************************************************************************)
(* Encryption and decryption.                                              *)
(***************************************************************************)
\* C31: decrypting, with the same key and nonce, the cipher text and tag that
\* encrypting a text produced returns that text and reports it authentic.
C31_DecryptOfEncrypt ==
  (/\ call.fn = "AesCcmDecrypt"
   /\ call.args.key = call.args.encrypted.key
   /\ call.args.nonce = call.args.encrypted.nonce)
    => /\ call.result.outData = call.args.encrypted.inData
       /\ call.result.isValid

\* a text of three bytes came back under a key and a nonce that are not zero
C31_Witness ==
  /\ call.fn = "AesCcmDecrypt"
  /\ call.args.key = call.args.encrypted.key /\ call.args.key # 0
  /\ call.args.nonce = call.args.encrypted.nonce /\ call.args.nonce[1] = 255
  /\ Len(call.args.encrypted.inData) = 3
  /\ call.args.inData # call.args.encrypted.inData
  /\ call.result.isValid

C33_StandbyHasNoHandle ==
  \A a \in Registered(World) :
     dev[a].connectionState = STATE_STANDBY => dev[a].connection_handle = None

(***************************************************************************)
(* ListeningData and the attribute map.                                    *)
(***************************************************************************)
\* C34: a device in normal mode whose version was read is in ListeningData
\* only while every characteristic expected for that version has a handle.
C34_ListeningOnlyWithAllHandles ==
  \A a \in Registered(World) :
     (/\ dev[a].connectionState = STATE_LISTENING_DATA
      /\ ~dev[a].bootloaderMode
      /\ dev[a].swVersion # None)
        => \A c \in Expected(dev[a].swVersion) : GetHandle(dev[a], c)

(***************************************************************************)
(* Progress of a session.                                                  *)
(***************************************************************************)
\* C35: a device that is in Encrypting, GetVersion, FindingServices,
\* FindingAttributes or EnablingNotifications eventually is in ListeningData
\* or in Standby.
C35_SessionReachesListeningOrStandby ==
  \A a \in Addr :
     (dev[a].connectionState \in
        {STATE_ENCRYPTING, STATE_GET_VERSION, STATE_FINDING_SERVICES,
         STATE_FINDING_ATTRIBUTES, STATE_ENABLING_NOTIFICATIONS})
       ~> (dev[a].connectionState \in {STATE_LISTENING_DATA, STATE_STANDBY})

(***************************************************************************)
(* Encryption before the session.                                          *)
(***************************************************************************)
\* the states of a session from GetVersion on
SessionStates ==
  {STATE_GET_VERSION, STATE_FINDING_SERVICES, STATE_FINDING_ATTRIBUTES,
   STATE_ENABLING_NOTIFICATIONS, STATE_LISTENING_DATA}

\* C36: a device that requires encryption goes from Standby, Connecting or
\* Encrypting to GetVersion or a later state of the session only when the
\* host parses a connection status that reports the link encrypted.
C36_SessionOnlyOverEncryptedLink ==
  [][\A a \in Addr :
       (/\ dev[a].connectionState \in {STATE_STANDBY, STATE_CONNECTING, STATE_ENCRYPTING}
        /\ dev'[a].connectionState \in SessionStates
        /\ dev'[a].encryptionRequired)
         => (/\ rxq # <<>>
             /\ Head(rxq).t = "evt_connection_status"
             /\ Bit(Head(rxq).r, FLAG_ENCRYPTED))]_vars

(***************************************************************************)
(* The acknowledgement of a write.                                         *)
(***************************************************************************)
\* C37: TransmitPacket returns true only if the device acknowledged, with
\* success, a command that this call of TransmitPacket issued.
C37_SuccessOnlyOnOwnAcknowledgement ==
  (tx.result = "true") => (tx.acked >= 1)

(***************************************************************************)
(* Segments of a group table in any order.                                 *)
(***************************************************************************)
\* one segment of the history carries the last-packet flag, and every slot
\* below its end is in some segment of the history
Covered(h) ==
  /\ h # <<>> /\ h # Untracked
  /\ Cardinality({i \in 1..Len(h) : h[i].last}) = 1
  /\ LET l == CHOOSE i \in 1..Len(h) : h[i].last
     IN /\ h[l].off + h[l].n <= NUM_GROUPS
        /\ \A j \in 0..(h[l].off + h[l].n - 1) :
              \E i \in 1..Len(h) : h[i].off <= j /\ j < h[i].off + h[i].n

\* C38: from an empty table, once the segments received cover every slot
\* below the end of the last-packet segment, in whatever order they came,
\* the table is marked complete.
C38_CompleteInAnyOrder ==
  \A a \in Addr : Covered(grp.hist[a]) => dev[a].receivedAllGroups

(***************************************************************************)
(* The length of a group table.                                            *)
(***************************************************************************)
\* C39: the group table of every device has 16 slots in every state.
C39_TableHasSixteenSlots ==
  \A a \in Addr : Len(dev[a].groups) = NUM_GROUPS

====
